---------------------------- MODULE Spec2Model ----------------------------
(***************************************************************************)
(* A model of the Chiron chess engine: the Board with make/unmake and its  *)
(* incremental Zobrist key, the pseudo-legal and legal move generators,    *)
(* the NNUE accumulator, the iterative-deepening driver of Search and the  *)
(* UCI front-end's search thread discipline.                               *)
(*                                                                         *)
(* Bitboards are sets of squares (bit i <-> square i).  A 64-bit Zobrist   *)
(* key is the set of the table entries XORed into it, so that XOR is the   *)
(* symmetric difference: two keys that are equal here are equal for every  *)
(* contents of the random tables.                                          *)
(***************************************************************************)
EXTENDS Integers, Sequences, FiniteSets, TLC

(***************************************************************************)
(* types.h, move.h, board.h: enumerations and flags                        *)
(***************************************************************************)
White == 0
Black == 1

Pawn == 0
Knight == 1
Bishop == 2
Rook == 3
Queen == 4
King == 5
NoPiece == 6

kBoardSize == 64
kNumPieceTypes == 6
kNumColors == 2
kEmptySquare == 12

\* MoveFlag: a move's flags are the set of the bits that are set; Quiet is {}.
Capture == 1
DoublePush == 2
KingCastle == 4
QueenCastle == 8
EnPassant == 16
Promotion == 32

kWhiteKingCastle == 1
kWhiteQueenCastle == 2
kBlackKingCastle == 4
kBlackQueenCastle == 8

A1 == 0
C1sq == 2
D1 == 3
E1 == 4
F1 == 5
G1 == 6
H1 == 7
A8 == 56
C8 == 58
D8 == 59
E8 == 60
F8 == 61
G8 == 62
H8 == 63
B1 == 1
B8 == 57

Squares == 0 .. 63
Colors == {White, Black}
PieceTypes == 0 .. 5

opposite_color(c) == IF c = White THEN Black ELSE White

file_of(sq) == sq % 8
rank_of(sq) == sq \div 8

encode_piece(color, type) == type + color * kNumPieceTypes
decode_piece_type(code) ==
    IF code >= kNumPieceTypes * kNumColors THEN NoPiece ELSE code % kNumPieceTypes
decode_piece_color(code) == code \div kNumPieceTypes

\* Move{}: from = to = 0, no promotion, Quiet.
NullMove == [from |-> 0, to |-> 0, promotion |-> NoPiece, flags |-> {}]
Mv(f, t, p, fl) == [from |-> f, to |-> t, promotion |-> p, flags |-> fl]

is_capture(m) == Capture \in m.flags
is_double_pawn_push(m) == DoublePush \in m.flags
is_en_passant(m) == EnPassant \in m.flags
is_castle(m) == (KingCastle \in m.flags) \/ (QueenCastle \in m.flags)
is_promotion(m) == Promotion \in m.flags

(***************************************************************************)
(* bitboard.h: shifts, with the file masks that prevent wrap-around        *)
(***************************************************************************)
NotFileH(b) == {s \in b : s % 8 # 7}
NotFileA(b) == {s \in b : s % 8 # 0}
Shl(b, n) == {s + n : s \in {x \in b : x + n <= 63}}
Shr(b, n) == {s - n : s \in {x \in b : x - n >= 0}}

north(b) == Shl(b, 8)
south(b) == Shr(b, 8)
east(b) == Shl(NotFileH(b), 1)
west(b) == Shr(NotFileA(b), 1)
north_east(b) == Shl(NotFileH(b), 9)
north_west(b) == Shl(NotFileA(b), 7)
south_east(b) == Shr(NotFileH(b), 7)
south_west(b) == Shr(NotFileA(b), 9)

\* std::countr_zero of a non-empty bitboard: its least square.
lsb(b) == CHOOSE s \in b : \A t \in b : s <= t

\* The order in which a pop_lsb loop visits a bitboard: ascending squares.
RECURSIVE BitsAsc(_)
BitsAsc(b) == IF b = {} THEN << >> ELSE <<lsb(b)>> \o BitsAsc(b \ {lsb(b)})

(***************************************************************************)
(* attacks.cpp                                                             *)
(***************************************************************************)
mask_knight(square) ==
    LET rank == square \div 8
        file == square % 8
        add(r, f) == IF r >= 0 /\ r < 8 /\ f >= 0 /\ f < 8 THEN {r * 8 + f} ELSE {}
    IN  add(rank + 2, file + 1) \cup add(rank + 2, file - 1) \cup
        add(rank - 2, file + 1) \cup add(rank - 2, file - 1) \cup
        add(rank + 1, file + 2) \cup add(rank + 1, file - 2) \cup
        add(rank - 1, file + 2) \cup add(rank - 1, file - 2)

mask_king(square) ==
    LET b == {square}
    IN  north(b) \cup south(b) \cup east(b) \cup west(b) \cup
        north_east(b) \cup north_west(b) \cup south_east(b) \cup south_west(b)

mask_pawn(color, square) ==
    LET b == {square}
    IN  IF color = White THEN north_east(b) \cup north_west(b)
        ELSE south_east(b) \cup south_west(b)

\* init_attack_tables: the three tables, filled once.
knight_attacks_ == [sq \in Squares |-> mask_knight(sq)]
king_attacks_ == [sq \in Squares |-> mask_king(sq)]
pawn_attacks_ == [c \in Colors |-> [sq \in Squares |-> mask_pawn(c, sq)]]

pawn_attacks(color, square) == pawn_attacks_[color][square]
knight_attacks(square) == knight_attacks_[square]
king_attacks(square) == king_attacks_[square]

\* One ray of bishop_attacks / rook_attacks: step (dr, df) from (r, f) while on
\* the board, adding each square and stopping after the first blocker.
RECURSIVE Ray(_, _, _, _, _)
Ray(r, f, dr, df, blockers) ==
    IF r < 0 \/ r > 7 \/ f < 0 \/ f > 7 THEN {}
    ELSE LET sq == r * 8 + f
         IN  IF sq \in blockers THEN {sq}
             ELSE {sq} \cup Ray(r + dr, f + df, dr, df, blockers)

bishop_attacks(square, blockers) ==
    LET rank == square \div 8
        file == square % 8
    IN  Ray(rank + 1, file + 1, 1, 1, blockers) \cup Ray(rank + 1, file - 1, 1, -1, blockers) \cup
        Ray(rank - 1, file + 1, -1, 1, blockers) \cup Ray(rank - 1, file - 1, -1, -1, blockers)

rook_attacks(square, blockers) ==
    LET rank == square \div 8
        file == square % 8
    IN  Ray(rank + 1, file, 1, 0, blockers) \cup Ray(rank - 1, file, -1, 0, blockers) \cup
        Ray(rank, file + 1, 0, 1, blockers) \cup Ray(rank, file - 1, 0, -1, blockers)

queen_attacks(square, blockers) ==
    bishop_attacks(square, blockers) \cup rook_attacks(square, blockers)

(***************************************************************************)
(* zobrist.cpp: a key is the set of table entries XORed together           *)
(***************************************************************************)
\* A key is named by the position of its entry in the stream that
\* Zobrist::init draws from the generator: pieces_ first, then castling_,
\* en_passant_ and side_.
Xor(a, b) == (a \ b) \cup (b \ a)

piece_key(c, pt, square) ==
    IF pt = NoPiece \/ square < 0 \/ square >= kBoardSize THEN {}
    ELSE {(c * kNumPieceTypes + pt) * kBoardSize + square}

\* The value of the rights byte: the sum of the bits set.
RightsValue(rights) ==
    (IF kWhiteKingCastle \in rights THEN kWhiteKingCastle ELSE 0) +
    (IF kWhiteQueenCastle \in rights THEN kWhiteQueenCastle ELSE 0) +
    (IF kBlackKingCastle \in rights THEN kBlackKingCastle ELSE 0) +
    (IF kBlackQueenCastle \in rights THEN kBlackQueenCastle ELSE 0)

castling_key(rights) == {kNumColors * kNumPieceTypes * kBoardSize + RightsValue(rights)}

en_passant_key(file) ==
    IF file < 0 \/ file >= 8 THEN {}
    ELSE {kNumColors * kNumPieceTypes * kBoardSize + 16 + file}

side_key == {kNumColors * kNumPieceTypes * kBoardSize + 16 + 8}

(***************************************************************************)
(* board.cpp: the Board                                                    *)
(*   castling_rights is the set of the right bits that are set.            *)
(***************************************************************************)
\* Board::clear
EmptyBoard ==
    [pieces |-> [c \in Colors |-> [p \in PieceTypes |-> {}]],
     occupancies |-> [c \in Colors |-> {}],
     occupancy_all |-> {},
     mailbox |-> [sq \in Squares |-> kEmptySquare],
     side_to_move |-> White,
     castling_rights |-> {},
     en_passant_square |-> -1,
     halfmove_clock |-> 0,
     fullmove_number |-> 1,
     zobrist_key |-> {}]

place_piece(b, color, type, square) ==
    [b EXCEPT !.pieces[color][type] = @ \cup {square},
              !.occupancies[color] = @ \cup {square},
              !.occupancy_all = @ \cup {square},
              !.mailbox[square] = encode_piece(color, type),
              !.zobrist_key = Xor(@, piece_key(color, type, square))]

\* remove_piece without line 58: the union of the occupancies keeps the square.
remove_piece_stale_occupancy(b, color, type, square) ==
    [b EXCEPT !.pieces[color][type] = @ \ {square},
              !.occupancies[color] = @ \ {square},
              !.mailbox[square] = kEmptySquare,
              !.zobrist_key = Xor(@, piece_key(color, type, square))]

remove_piece(b, color, type, square) ==
    [b EXCEPT !.pieces[color][type] = @ \ {square},
              !.occupancies[color] = @ \ {square},
              !.occupancy_all = @ \ {square},
              !.mailbox[square] = kEmptySquare,
              !.zobrist_key = Xor(@, piece_key(color, type, square))]

piece_type_at(b, square) ==
    IF square < 0 \/ square >= kBoardSize THEN NoPiece
    ELSE IF b.mailbox[square] = kEmptySquare THEN NoPiece
    ELSE decode_piece_type(b.mailbox[square])

\* color_at: -1 stands for std::nullopt.
color_at(b, square) ==
    IF square < 0 \/ square >= kBoardSize THEN -1
    ELSE IF b.mailbox[square] = kEmptySquare THEN -1
    ELSE decode_piece_color(b.mailbox[square])

is_square_attacked(b, sq, by) ==
    \/ pawn_attacks(opposite_color(by), sq) \cap b.pieces[by][Pawn] # {}
    \/ knight_attacks(sq) \cap b.pieces[by][Knight] # {}
    \/ king_attacks(sq) \cap b.pieces[by][King] # {}
    \/ bishop_attacks(sq, b.occupancy_all) \cap (b.pieces[by][Bishop] \cup b.pieces[by][Queen]) # {}
    \/ rook_attacks(sq, b.occupancy_all) \cap (b.pieces[by][Rook] \cup b.pieces[by][Queen]) # {}

in_check(b, color) ==
    LET king_bb == b.pieces[color][King]
    IN  IF king_bb = {} THEN FALSE
        ELSE is_square_attacked(b, lsb(king_bb), opposite_color(color))

\* Board::State as make_move fills it on entry.
Snapshot(b) ==
    [castling_rights |-> b.castling_rights,
     en_passant_square |-> b.en_passant_square,
     halfmove_clock |-> b.halfmove_clock,
     zobrist_key |-> b.zobrist_key,
     captured_piece |-> NoPiece,
     fullmove_number |-> b.fullmove_number]

\* make_move, lines 222-227: the old en-passant and castling keys leave the hash.
XorOutEpCastling(b) ==
    LET k1 == IF b.en_passant_square # -1
              THEN Xor(b.zobrist_key, en_passant_key(file_of(b.en_passant_square)))
              ELSE b.zobrist_key
    IN  [b EXCEPT !.en_passant_square = -1,
                  !.zobrist_key = Xor(k1, castling_key(b.castling_rights))]

\* make_move, lines 251-263: the rook's half of a castle.
CastleRook(b, move, us) ==
    IF ~is_castle(move) THEN b
    ELSE IF KingCastle \in move.flags
    THEN place_piece(remove_piece(b, us, Rook, IF us = White THEN H1 ELSE H8),
                     us, Rook, IF us = White THEN F1 ELSE F8)
    ELSE place_piece(remove_piece(b, us, Rook, IF us = White THEN A1 ELSE A8),
                     us, Rook, IF us = White THEN D1 ELSE D8)

\* The castling rights after the move, a capture on a rook's home square
\* not looked at.
NewCastlingRights_of_mover(rights, move, us, moving_piece, captured) ==
    IF moving_piece = King
    THEN IF us = White THEN rights \ {kWhiteKingCastle, kWhiteQueenCastle}
                       ELSE rights \ {kBlackKingCastle, kBlackQueenCastle}
    ELSE IF moving_piece = Rook
    THEN IF us = White
         THEN IF move.from = A1 THEN rights \ {kWhiteQueenCastle}
              ELSE IF move.from = H1 THEN rights \ {kWhiteKingCastle}
              ELSE rights
         ELSE IF move.from = A8 THEN rights \ {kBlackQueenCastle}
              ELSE IF move.from = H8 THEN rights \ {kBlackKingCastle}
              ELSE rights
    ELSE rights

\* make_move, lines 265-295: the castling rights after the move.
NewCastlingRights(rights, move, us, moving_piece, captured) ==
    LET r1 == IF moving_piece = King
              THEN IF us = White THEN rights \ {kWhiteKingCastle, kWhiteQueenCastle}
                                 ELSE rights \ {kBlackKingCastle, kBlackQueenCastle}
              ELSE IF moving_piece = Rook
              THEN IF us = White
                   THEN IF move.from = A1 THEN rights \ {kWhiteQueenCastle}
                        ELSE IF move.from = H1 THEN rights \ {kWhiteKingCastle}
                        ELSE rights
                   ELSE IF move.from = A8 THEN rights \ {kBlackQueenCastle}
                        ELSE IF move.from = H8 THEN rights \ {kBlackKingCastle}
                        ELSE rights
              ELSE rights
    IN  IF captured # NoPiece /\ ~is_en_passant(move)
        THEN r1 \ ((IF move.to = A1 THEN {kWhiteQueenCastle} ELSE {}) \cup
                   (IF move.to = H1 THEN {kWhiteKingCastle} ELSE {}) \cup
                   (IF move.to = A8 THEN {kBlackQueenCastle} ELSE {}) \cup
                   (IF move.to = H8 THEN {kBlackKingCastle} ELSE {}))
        ELSE r1

\* make_move, lines 297-308: the halfmove clock after the move.
NewHalfmoveClock(clock, moving_piece, captured) ==
    IF moving_piece = Pawn THEN 0
    ELSE IF captured # NoPiece THEN 0
    ELSE clock + 1

\* The en-passant square set to the square the pawn lands on.
NewEnPassantSquare_landing(move, moving_piece) ==
    IF moving_piece = Pawn /\ is_double_pawn_push(move) THEN move.to ELSE -1

\* make_move, lines 299-301: the en-passant square after the move.
NewEnPassantSquare(move, moving_piece) ==
    IF moving_piece = Pawn /\ is_double_pawn_push(move)
    THEN (move.from + move.to) \div 2
    ELSE -1

\* The end of make_move without line 314: the key of the new castling rights
\* never enters the hash.
FinishMove_without_castling_key(b, us) ==
    LET k1 == IF b.en_passant_square # -1
              THEN Xor(b.zobrist_key, en_passant_key(file_of(b.en_passant_square)))
              ELSE b.zobrist_key
    IN  [b EXCEPT !.side_to_move = opposite_color(us),
                  !.zobrist_key = Xor(k1, side_key),
                  !.fullmove_number = IF us = Black THEN @ + 1 ELSE @]

\* make_move, lines 310-321: the new keys enter the hash, the side flips.
FinishMove(b, us) ==
    LET k1 == IF b.en_passant_square # -1
              THEN Xor(b.zobrist_key, en_passant_key(file_of(b.en_passant_square)))
              ELSE b.zobrist_key
        k2 == Xor(k1, castling_key(b.castling_rights))
    IN  [b EXCEPT !.side_to_move = opposite_color(us),
                  !.zobrist_key = Xor(k2, side_key),
                  !.fullmove_number = IF us = Black THEN @ + 1 ELSE @]

\* Board::make_move.  The result is the board and the State handed back, with
\* threw = TRUE when the call ends in a std::runtime_error (the board is then
\* as the statements before the throw left it).
make_move(b, move) ==
    LET st0 == Snapshot(b)
        us == b.side_to_move
        them == opposite_color(us)
        moving_piece == piece_type_at(b, move.from)
    IN  IF moving_piece = NoPiece
        THEN [board |-> b, state |-> st0, threw |-> TRUE]
        ELSE
        LET b1 == XorOutEpCastling(b)
            b2 == remove_piece(b1, us, moving_piece, move.from)
            captured == IF is_en_passant(move) THEN Pawn
                        ELSE IF is_capture(move) THEN piece_type_at(b2, move.to)
                        ELSE NoPiece
        IN  IF ~is_en_passant(move) /\ is_capture(move) /\ captured = NoPiece
            THEN [board |-> b2, state |-> st0, threw |-> TRUE]
            ELSE
            LET b3 == IF is_en_passant(move)
                      THEN remove_piece(b2, them, Pawn, move.to + (IF us = White THEN -8 ELSE 8))
                      ELSE IF is_capture(move)
                      THEN remove_piece(b2, them, captured, move.to)
                      ELSE b2
                placed_piece == IF is_promotion(move) THEN move.promotion ELSE moving_piece
                b4 == place_piece(b3, us, placed_piece, move.to)
                b5 == CastleRook(b4, move, us)
                b6 == [b5 EXCEPT
                         !.castling_rights = NewCastlingRights(@, move, us, moving_piece, captured),
                         !.halfmove_clock = NewHalfmoveClock(@, moving_piece, captured),
                         !.en_passant_square = NewEnPassantSquare(move, moving_piece)]
            IN  [board |-> FinishMove(b6, us),
                 state |-> [st0 EXCEPT !.captured_piece = captured],
                 threw |-> FALSE]

\* undo_move, lines 341-353: the rook goes home.
UncastleRook(b, move, us) ==
    IF ~is_castle(move) THEN b
    ELSE IF KingCastle \in move.flags
    THEN place_piece(remove_piece(b, us, Rook, IF us = White THEN F1 ELSE F8),
                     us, Rook, IF us = White THEN H1 ELSE H8)
    ELSE place_piece(remove_piece(b, us, Rook, IF us = White THEN D1 ELSE D8),
                     us, Rook, IF us = White THEN A1 ELSE A8)

\* undo_move, lines 355-362: the captured piece comes back.
RestoreCaptured(b, move, state, us, them) ==
    IF state.captured_piece = NoPiece THEN b
    ELSE IF is_en_passant(move)
    THEN place_piece(b, them, Pawn, move.to + (IF us = White THEN -8 ELSE 8))
    ELSE place_piece(b, them, state.captured_piece, move.to)

\* The end of undo_move without line 366: the halfmove clock stays as the
\* move left it.
RestoreState_without_clock(b, state) ==
    [b EXCEPT !.castling_rights = state.castling_rights,
              !.en_passant_square = state.en_passant_square,
              !.zobrist_key = state.zobrist_key,
              !.fullmove_number = state.fullmove_number]

\* undo_move, lines 364-368: the scalar fields come back from the State.
RestoreState(b, state) ==
    [b EXCEPT !.castling_rights = state.castling_rights,
              !.en_passant_square = state.en_passant_square,
              !.halfmove_clock = state.halfmove_clock,
              !.zobrist_key = state.zobrist_key,
              !.fullmove_number = state.fullmove_number]

\* Board::undo_move
undo_move(b, move, state) ==
    LET them == b.side_to_move
        us == opposite_color(them)
        b0 == [b EXCEPT !.side_to_move = us]
        k1 == IF b0.en_passant_square # -1
              THEN Xor(b0.zobrist_key, en_passant_key(file_of(b0.en_passant_square)))
              ELSE b0.zobrist_key
        b1 == [b0 EXCEPT !.zobrist_key = Xor(k1, castling_key(b0.castling_rights))]
        moved_piece == piece_type_at(b1, move.to)
        b2 == remove_piece(b1, us, moved_piece, move.to)
        original_piece == IF is_promotion(move) THEN Pawn ELSE moved_piece
        b3 == place_piece(b2, us, original_piece, move.from)
        b4 == UncastleRook(b3, move, us)
        b5 == RestoreCaptured(b4, move, state, us, them)
    IN  RestoreState(b5, state)

\* Board::make_null_move: the board after it and the State handed back.
make_null_move(b) ==
    LET st0 == Snapshot(b)
        k1 == IF b.en_passant_square # -1
              THEN Xor(b.zobrist_key, en_passant_key(file_of(b.en_passant_square)))
              ELSE b.zobrist_key
        us == b.side_to_move
    IN  [board |-> [b EXCEPT !.en_passant_square = -1,
                             !.side_to_move = opposite_color(us),
                             !.zobrist_key = Xor(k1, side_key),
                             !.fullmove_number = IF us = Black THEN @ + 1 ELSE @,
                             !.halfmove_clock = @ + 1],
         state |-> st0]

\* undo_null_move without line 398: the halfmove clock stays as the null
\* move left it.
undo_null_move_without_clock(b, state) ==
    RestoreState_without_clock([b EXCEPT !.side_to_move = opposite_color(b.side_to_move)], state)

\* Board::undo_null_move
undo_null_move(b, state) ==
    RestoreState([b EXCEPT !.side_to_move = opposite_color(b.side_to_move)], state)

(***************************************************************************)
(* Board::set_from_fen.  A FEN is given field by field, the placement, the  *)
(* castling and the en-passant fields as sequences of characters.          *)
(***************************************************************************)
DigitValue ==
    [c \in {"1", "2", "3", "4", "5", "6", "7", "8"} |->
        CASE c = "1" -> 1 [] c = "2" -> 2 [] c = "3" -> 3 [] c = "4" -> 4
          [] c = "5" -> 5 [] c = "6" -> 6 [] c = "7" -> 7 [] c = "8" -> 8]

FileValue ==
    [c \in {"a", "b", "c", "d", "e", "f", "g", "h"} |->
        CASE c = "a" -> 0 [] c = "b" -> 1 [] c = "c" -> 2 [] c = "d" -> 3
          [] c = "e" -> 4 [] c = "f" -> 5 [] c = "g" -> 6 [] c = "h" -> 7]

UpperChars == {"P", "N", "B", "R", "Q", "K"}

piece_from_char(c) ==
    CASE c \in {"p", "P"} -> Pawn
      [] c \in {"n", "N"} -> Knight
      [] c \in {"b", "B"} -> Bishop
      [] c \in {"r", "R"} -> Rook
      [] c \in {"q", "Q"} -> Queen
      [] c \in {"k", "K"} -> King
      [] OTHER -> NoPiece

square_from_file_rank(file, rank) == (DigitValue[rank] - 1) * 8 + FileValue[file]

\* set_from_fen, lines 127-144: the placement loop from character i up to the
\* next "/" or the end of the placement; next is the index of the character
\* the loop stopped at.
RECURSIVE PlaceRank(_, _, _, _)
PlaceRank(b, placement, i, square) ==
    IF i > Len(placement) \/ placement[i] = "/"
    THEN [board |-> b, next |-> i, square |-> square]
    ELSE LET c == placement[i]
         IN  IF c \in DOMAIN DigitValue
             THEN PlaceRank(b, placement, i + 1, square + DigitValue[c])
             ELSE PlaceRank(place_piece(b, IF c \in UpperChars THEN White ELSE Black,
                                        piece_from_char(c), square),
                            placement, i + 1, square + 1)

\* set_from_fen, lines 127-144: the placement loop from character i on, one
\* rank after the other; a "/" takes the square back by 16.
RECURSIVE PlacePieces(_, _, _, _)
PlacePieces(b, placement, i, square) ==
    LET r == PlaceRank(b, placement, i, square)
    IN  IF r.next > Len(placement) THEN r.board
        ELSE PlacePieces(r.board, placement, r.next + 1, r.square - 16)

Range(s) == {s[i] : i \in 1 .. Len(s)}

InSeq(x, s) == \E i \in 1 .. Len(s) : s[i] = x

set_from_fen(fen) ==
    LET b1 == PlacePieces(EmptyBoard, fen.placement, 1, 56)
        side == IF fen.active = "b" THEN Black ELSE White
        b2 == [b1 EXCEPT !.side_to_move = side,
                         !.zobrist_key = IF side = Black THEN Xor(@, side_key) ELSE @]
        rights == (IF InSeq("K", fen.castling) THEN {kWhiteKingCastle} ELSE {}) \cup
                  (IF InSeq("Q", fen.castling) THEN {kWhiteQueenCastle} ELSE {}) \cup
                  (IF InSeq("k", fen.castling) THEN {kBlackKingCastle} ELSE {}) \cup
                  (IF InSeq("q", fen.castling) THEN {kBlackQueenCastle} ELSE {})
        b3 == [b2 EXCEPT !.castling_rights = rights,
                         !.zobrist_key = Xor(@, castling_key(rights))]
        b4 == IF fen.en_passant # <<"-">>
              THEN LET ep == square_from_file_rank(fen.en_passant[1], fen.en_passant[2])
                   IN  [b3 EXCEPT !.en_passant_square = ep,
                                  !.zobrist_key = Xor(@, en_passant_key(file_of(ep)))]
              ELSE b3
    IN  [b4 EXCEPT !.halfmove_clock = fen.halfmove, !.fullmove_number = fen.fullmove]

Fen(placement, active, castling, en_passant, halfmove, fullmove) ==
    [placement |-> placement, active |-> active, castling |-> castling,
     en_passant |-> en_passant, halfmove |-> halfmove, fullmove |-> fullmove]

\* kStartFEN
kStartFEN ==
    Fen(<<"r", "n", "b", "q", "k", "b", "n", "r", "/",
          "p", "p", "p", "p", "p", "p", "p", "p", "/",
          "8", "/", "8", "/", "8", "/", "8", "/",
          "P", "P", "P", "P", "P", "P", "P", "P", "/",
          "R", "N", "B", "Q", "K", "B", "N", "R">>,
        "w", <<"K", "Q", "k", "q">>, <<"-">>, 0, 1)

(***************************************************************************)
(* movegen.cpp                                                             *)
(***************************************************************************)
RECURSIVE Flatten(_)
Flatten(ss) == IF ss = << >> THEN << >> ELSE Head(ss) \o Flatten(Tail(ss))

\* add_promotion_moves: Queen, Rook, Bishop, Knight in this order.
kPromotions == <<Queen, Rook, Bishop, Knight>>
add_promotion_moves(from, to, capture) ==
    [i \in 1 .. 4 |->
        Mv(from, to, kPromotions[i], IF capture THEN {Promotion, Capture} ELSE {Promotion})]

\* generate_pseudo_legal_moves, lines 20-69: the moves of the pawn on `from`.
PawnMoves(b, from) ==
    LET us == b.side_to_move
        them == opposite_color(us)
        enemy == b.occupancies[them]
        rank == from \div 8
        forward == from + (IF us = White THEN 8 ELSE -8)
        promotion_rank == IF us = White THEN rank = 6 ELSE rank = 1
        double_forward == from + (IF us = White THEN 16 ELSE -16)
        double_rank == IF us = White THEN rank = 1 ELSE rank = 6
        pushes ==
            IF forward >= 0 /\ forward < kBoardSize /\ piece_type_at(b, forward) = NoPiece
            THEN IF promotion_rank THEN add_promotion_moves(from, forward, FALSE)
                 ELSE <<Mv(from, forward, NoPiece, {})>> \o
                      (IF double_rank /\ piece_type_at(b, double_forward) = NoPiece
                       THEN <<Mv(from, double_forward, NoPiece, {DoublePush})>>
                       ELSE << >>)
            ELSE << >>
        attacks == BitsAsc(pawn_attacks(us, from) \cap enemy)
        captures ==
            Flatten([i \in 1 .. Len(attacks) |->
                IF promotion_rank THEN add_promotion_moves(from, attacks[i], TRUE)
                ELSE <<Mv(from, attacks[i], NoPiece, {Capture})>>])
        ep_square == b.en_passant_square
        ep == IF ep_square # -1 /\ ep_square \in pawn_attacks(us, from)
              THEN <<Mv(from, ep_square, NoPiece, {Capture, EnPassant})>>
              ELSE << >>
    IN  pushes \o captures \o ep

\* The inner loop shared by knights, bishops, rooks, queens and the king:
\* one move per target square, a Capture when an enemy stands there.
TargetMoves(b, from, targets) ==
    LET enemy == b.occupancies[opposite_color(b.side_to_move)]
        ts == BitsAsc(targets)
    IN  [i \in 1 .. Len(ts) |->
            Mv(from, ts[i], NoPiece, IF ts[i] \in enemy THEN {Capture} ELSE {})]

\* Castling generated without a look at the attacks on the king's way.
CastleMoves_through_attacks(b, from) ==
    LET us == b.side_to_move
        rights == b.castling_rights
        empty(sq) == piece_type_at(b, sq) = NoPiece
    IN  IF in_check(b, us) THEN << >>
        ELSE IF us = White
        THEN (IF kWhiteKingCastle \in rights /\ empty(F1) /\ empty(G1)
              THEN <<Mv(from, G1, NoPiece, {KingCastle})>> ELSE << >>) \o
             (IF kWhiteQueenCastle \in rights /\ empty(D1) /\ empty(C1sq) /\ empty(B1)
              THEN <<Mv(from, C1sq, NoPiece, {QueenCastle})>> ELSE << >>)
        ELSE (IF kBlackKingCastle \in rights /\ empty(F8) /\ empty(G8)
              THEN <<Mv(from, G8, NoPiece, {KingCastle})>> ELSE << >>) \o
             (IF kBlackQueenCastle \in rights /\ empty(D8) /\ empty(C8) /\ empty(B8)
              THEN <<Mv(from, C8, NoPiece, {QueenCastle})>> ELSE << >>)

\* generate_pseudo_legal_moves, lines 145-197: castling.
CastleMoves(b, from) ==
    LET us == b.side_to_move
        them == opposite_color(us)
        rights == b.castling_rights
        empty(sq) == piece_type_at(b, sq) = NoPiece
        safe(sq) == ~is_square_attacked(b, sq, them)
    IN  IF in_check(b, us) THEN << >>
        ELSE IF us = White
        THEN (IF kWhiteKingCastle \in rights /\ empty(F1) /\ empty(G1) /\ safe(F1) /\ safe(G1)
              THEN <<Mv(from, G1, NoPiece, {KingCastle})>> ELSE << >>) \o
             (IF kWhiteQueenCastle \in rights /\ empty(D1) /\ empty(C1sq) /\ empty(B1)
                 /\ safe(D1) /\ safe(C1sq)
              THEN <<Mv(from, C1sq, NoPiece, {QueenCastle})>> ELSE << >>)
        ELSE (IF kBlackKingCastle \in rights /\ empty(F8) /\ empty(G8) /\ safe(F8) /\ safe(G8)
              THEN <<Mv(from, G8, NoPiece, {KingCastle})>> ELSE << >>) \o
             (IF kBlackQueenCastle \in rights /\ empty(D8) /\ empty(C8) /\ empty(B8)
                 /\ safe(D8) /\ safe(C8)
              THEN <<Mv(from, C8, NoPiece, {QueenCastle})>> ELSE << >>)

generate_pseudo_legal_moves(b) ==
    LET us == b.side_to_move
        friendly == b.occupancies[us]
        occupied == b.occupancy_all
        pawns == BitsAsc(b.pieces[us][Pawn])
        knights == BitsAsc(b.pieces[us][Knight])
        bishops == BitsAsc(b.pieces[us][Bishop])
        rooks == BitsAsc(b.pieces[us][Rook])
        queens == BitsAsc(b.pieces[us][Queen])
        kings == b.pieces[us][King]
    IN  Flatten([i \in 1 .. Len(pawns) |-> PawnMoves(b, pawns[i])]) \o
        Flatten([i \in 1 .. Len(knights) |->
            TargetMoves(b, knights[i], knight_attacks(knights[i]) \ friendly)]) \o
        Flatten([i \in 1 .. Len(bishops) |->
            TargetMoves(b, bishops[i], bishop_attacks(bishops[i], occupied) \ friendly)]) \o
        Flatten([i \in 1 .. Len(rooks) |->
            TargetMoves(b, rooks[i], rook_attacks(rooks[i], occupied) \ friendly)]) \o
        Flatten([i \in 1 .. Len(queens) |->
            TargetMoves(b, queens[i], queen_attacks(queens[i], occupied) \ friendly)]) \o
        (IF kings # {}
         THEN TargetMoves(b, lsb(kings), king_attacks(lsb(kings)) \ friendly) \o
              CastleMoves(b, lsb(kings))
         ELSE << >>)

\* The move is made and the king is not looked at.
LeavesKingSafe_untested(b, move) == make_move(b, move).board.side_to_move # b.side_to_move

\* generate_legal_moves, lines 209-216: the test one pseudo-legal move passes.
\* After make_move the side to move is the opponent, so the king tested is
\* the mover's.
LeavesKingSafe(b, move) ==
    LET after == make_move(b, move).board
    IN  ~in_check(after, opposite_color(after.side_to_move))

\* generate_legal_moves without the test of line 213: every pseudo-legal move
\* is kept.
generate_legal_moves_unchecked(b) == generate_pseudo_legal_moves(b)

generate_legal_moves(b) ==
    SelectSeq(generate_pseudo_legal_moves(b), LAMBDA m : LeavesKingSafe(b, m))

(***************************************************************************)
(* move.h move_to_string and uci.cpp parse_move / handle_position: a move  *)
(* token is the sequence of its characters.                                *)
(***************************************************************************)
FileChar == <<"a", "b", "c", "d", "e", "f", "g", "h">>
RankChar == <<"1", "2", "3", "4", "5", "6", "7", "8">>

move_to_string(m) ==
    <<FileChar[(m.from % 8) + 1], RankChar[(m.from \div 8) + 1],
      FileChar[(m.to % 8) + 1], RankChar[(m.to \div 8) + 1]>> \o
    (IF is_promotion(m)
     THEN CASE m.promotion = Knight -> <<"n">>
            [] m.promotion = Bishop -> <<"b">>
            [] m.promotion = Rook -> <<"r">>
            [] OTHER -> <<"q">>
     ELSE << >>)

\* UCI::parse_move: the first legal move that prints as the token; found is
\* FALSE where the code throws "Illegal move received".
parse_move(b, token) ==
    LET moves == generate_legal_moves(b)
        hits == {i \in 1 .. Len(moves) : move_to_string(moves[i]) = token}
    IN  IF hits = {} THEN [found |-> FALSE, move |-> NullMove]
        ELSE [found |-> TRUE, move |-> moves[lsb(hits)]]

\* handle_position, lines 107-115: the moves replayed from token i on.  The
\* replay ends at the first token that is not a legal move (the throw).
RECURSIVE ReplayMoves(_, _, _)
ReplayMoves(b, tokens, i) ==
    IF i > Len(tokens) THEN [board |-> b, threw |-> FALSE]
    ELSE LET pm == parse_move(b, tokens[i])
         IN  IF ~pm.found THEN [board |-> b, threw |-> TRUE]
             ELSE ReplayMoves(make_move(b, pm.move).board, tokens, i + 1)


(***************************************************************************)
(* nnue/network.cpp, nnue/evaluator.cpp: the accumulator                   *)
(***************************************************************************)
\* The neurons modelled.
HiddenSize == 2
Neurons == 0 .. HiddenSize - 1

kDefaultPieceValues == <<100, 320, 330, 500, 900, 20000>>

feature_index(color, piece, square) ==
    color * kNumPieceTypes * kBoardSize + piece * kBoardSize + square

\* Network::input_weight(feature, neuron) for the two networks modelled:
\* "default" is what load_default installs (the piece's value on every square,
\* in every neuron); "file" stands for a loaded file, whose int16 weights
\* differ from feature to feature and from neuron to neuron.
input_weight(net, feature, neuron) ==
    IF neuron >= HiddenSize \/ feature >= kNumColors * kNumPieceTypes * kBoardSize THEN 0
    ELSE IF net = "default"
    THEN kDefaultPieceValues[((feature \div kBoardSize) % kNumPieceTypes) + 1]
    ELSE ((feature * 7 + neuron * 13) % 31) - 15

\* Accumulator::reset
ResetAccumulator == [white |-> [n \in Neurons |-> 0], black |-> [n \in Neurons |-> 0]]

AccumulatorSized(accum) ==
    DOMAIN accum.white = Neurons /\ DOMAIN accum.black = Neurons

apply_feature(net, accum, color, piece, square, sign) ==
    IF piece = NoPiece \/ square < 0 \/ square >= kBoardSize THEN accum
    ELSE LET a0 == IF AccumulatorSized(accum) THEN accum ELSE ResetAccumulator
             feature == feature_index(color, piece, square)
         IN  IF color = White
             THEN [a0 EXCEPT !.white =
                      [n \in Neurons |-> a0.white[n] + sign * input_weight(net, feature, n)]]
             ELSE [a0 EXCEPT !.black =
                      [n \in Neurons |-> a0.black[n] + sign * input_weight(net, feature, n)]]

\* build_accumulator, lines 71-75: the inner loop pops the squares of one
\* bitboard, lowest first; on the accumulator reset at line 68 every
\* apply_feature(..., +1) is one `+= weight`, so the loop leaves in a neuron
\* the sum of the weights of the features visited.
RECURSIVE BitboardSum(_, _, _, _, _)
BitboardSum(net, color, piece, bb, neuron) ==
    IF bb = {} THEN 0
    ELSE input_weight(net, feature_index(color, piece, lsb(bb)), neuron)
         + BitboardSum(net, color, piece, bb \ {lsb(bb)}, neuron)

\* build_accumulator, lines 70-76: the loop over the piece types of a color.
RECURSIVE PiecesSum(_, _, _, _, _)
PiecesSum(net, b, color, piece, neuron) ==
    IF piece >= kNumPieceTypes THEN 0
    ELSE BitboardSum(net, color, piece, b.pieces[color][piece], neuron)
         + PiecesSum(net, b, color, piece + 1, neuron)

\* Evaluator::build_accumulator(board, accum): the accum it writes.
build_accumulator(net, b) ==
    [white |-> [n \in Neurons |-> PiecesSum(net, b, White, Pawn, n)],
     black |-> [n \in Neurons |-> PiecesSum(net, b, Black, Pawn, n)]]

\* update_accumulator, lines 109-121: the rook's pair of a castle.
UpdateCastleRook(net, dest, move, us) ==
    IF ~is_castle(move) THEN dest
    ELSE LET rook_from == IF KingCastle \in move.flags
                          THEN (IF us = White THEN H1 ELSE H8)
                          ELSE (IF us = White THEN A1 ELSE A8)
             rook_to == IF KingCastle \in move.flags
                        THEN (IF us = White THEN F1 ELSE F8)
                        ELSE (IF us = White THEN D1 ELSE D8)
         IN  apply_feature(net, apply_feature(net, dest, us, Rook, rook_from, -1),
                           us, Rook, rook_to, 1)

\* The capture step without lines 103-105: an en-passant capture takes the
\* pawn's feature off the target square instead of the square behind it.
UpdateCapture_on_target(net, dest, b, move, us) ==
    IF ~is_capture(move) THEN dest
    ELSE LET them == opposite_color(us)
             captured_piece == IF is_en_passant(move) THEN Pawn ELSE piece_type_at(b, move.to)
         IN  apply_feature(net, dest, them, captured_piece, move.to, -1)

\* update_accumulator, lines 99-107: the captured piece leaves.
UpdateCapture(net, dest, b, move, us) ==
    IF ~is_capture(move) THEN dest
    ELSE LET them == opposite_color(us)
             captured_piece == IF is_en_passant(move) THEN Pawn ELSE piece_type_at(b, move.to)
             capture_square == IF is_en_passant(move)
                               THEN move.to + (IF us = White THEN -8 ELSE 8)
                               ELSE move.to
         IN  apply_feature(net, dest, them, captured_piece, capture_square, -1)

\* Evaluator::update_accumulator(board, move, base, dest): the dest it writes.
update_accumulator(net, b, move, base) ==
    LET us == b.side_to_move
        moving_piece == piece_type_at(b, move.from)
    IN  IF moving_piece = NoPiece THEN base
        ELSE LET d1 == apply_feature(net, base, us, moving_piece, move.from, -1)
                 placed_piece == IF is_promotion(move) THEN move.promotion ELSE moving_piece
                 d2 == apply_feature(net, d1, us, placed_piece, move.to, 1)
                 d3 == UpdateCapture(net, d2, b, move, us)
             IN  UpdateCastleRook(net, d3, move, us)

(***************************************************************************)
(* nnue/evaluator.cpp: Evaluator::evaluate                                 *)
(***************************************************************************)
kMaxEvaluationMagnitude == 30000
kActivationScale == 512

\* Accumulator{}: both vectors empty, as a resized accumulator_stack holds it
\* in a slot never written.
EmptyAccumulator == [white |-> << >>, black |-> << >>]

\* std::llround(a / b) for b > 0: to the nearest, halves away from zero.
RoundDiv(a, b) ==
    IF a >= 0 THEN (2 * a + b) \div (2 * b) ELSE -((2 * (-a) + b) \div (2 * b))

\* evaluate, lines 138-139: std::tanh(pre / kActivationScale) * kActivationScale.
\* The hyperbolic tangent is taken by a rational approximant, x (27 + x^2) /
\* (27 + 9 x^2) up to |x| = 3 and 1 beyond, in integers: odd, bounded by the
\* scale, 0 at 0.  Its digits are not those of std::tanh.
Activation(pre) ==
    IF pre >= 3 * kActivationScale THEN kActivationScale
    ELSE IF pre <= -3 * kActivationScale THEN -kActivationScale
    ELSE LET y == (pre * pre) \div 4096
         IN  RoundDiv(pre * (1728 + y), 1728 + 9 * y)

\* The parameters of the two networks modelled beside their input weights.
\* "default" is what load_default leaves: hidden biases 0, output weights
\* 1 / hidden_size, bias 0, scale 1.  "file" stands for a loaded file: hidden
\* biases that differ from neuron to neuron, output weights 1, a bias, scale 1.
\* "loud" stands for a loaded file of large parameters: the hidden biases of
\* "file", output weights 64, bias 29000, scale 2.
\* An output weight is the fraction num / den.
hidden_bias(net, neuron) == IF net = "default" THEN 0 ELSE 3 * neuron - 2
output_weight(net, neuron) ==
    IF net = "default" THEN [num |-> 1, den |-> HiddenSize]
    ELSE IF net = "loud" THEN [num |-> 64, den |-> 1]
    ELSE [num |-> 1, den |-> 1]
net_bias(net) == IF net = "default" THEN 0 ELSE IF net = "loud" THEN 29000 ELSE 5
net_scale(net) == IF net = "loud" THEN 2 ELSE 1

\* evaluate, lines 130-137: the pre-activation of a neuron.  A vector too
\* short for the neuron contributes nothing.
PreActivation(net, accum, neuron) ==
    (IF neuron \in DOMAIN accum.white THEN accum.white[neuron] ELSE 0)
    - (IF neuron \in DOMAIN accum.black THEN accum.black[neuron] ELSE 0)
    + hidden_bias(net, neuron)

\* evaluate, lines 128-141: raw, the sum over the neurons, as the fraction
\* num / den (the output weights of a network share their denominator).
RECURSIVE RawSum(_, _, _)
RawSum(net, accum, neuron) ==
    IF neuron >= HiddenSize THEN 0
    ELSE Activation(PreActivation(net, accum, neuron)) * output_weight(net, neuron).num
         + RawSum(net, accum, neuron + 1)

\* std::clamp
Clamp(v, lo, hi) == IF v < lo THEN lo ELSE IF v > hi THEN hi ELSE v

\* evaluate, line 144, without the clamp.
ClampScore_absent(score) == score

\* evaluate, line 144
ClampScore(score) == Clamp(score, -kMaxEvaluationMagnitude, kMaxEvaluationMagnitude)

\* Evaluator::evaluate(board, accum): the score from the side to move.
evaluate(net, b, accum) ==
    LET den == output_weight(net, 0).den
        raw == net_bias(net) * den + RawSum(net, accum, 0)
        score == ClampScore(RoundDiv(raw * net_scale(net), den))
    IN  IF b.side_to_move = White THEN score ELSE -score
(***************************************************************************)
(* search.cpp: the transposition table, the root's move list, the limits   *)
(***************************************************************************)
kInfinity == 32000
kMateValue == 32000
kMateScoreThreshold == kMateValue - 512
kInitialAspiration == 18

Max(a, b) == IF a >= b THEN a ELSE b
Min(a, b) == IF a <= b THEN a ELSE b
Abs(a) == IF a < 0 THEN -a ELSE a

\* same_move: the four fields agree.
same_move(a, b) ==
    a.from = b.from /\ a.to = b.to /\ a.promotion = b.promotion /\ a.flags = b.flags

\* Move{} as the code tests it: from and to are both 0.
is_null_move(m) == m.from = 0 /\ m.to = 0

\* to_tt_score without the ply: the score goes to the table as it is.
to_tt_score_as_is(s, ply) == s

to_tt_score(s, ply) ==
    IF s > kMateScoreThreshold THEN s + ply
    ELSE IF s < -kMateScoreThreshold THEN s - ply
    ELSE s

\* from_tt_score with the signs of to_tt_score: the ply is added to a mate
\* score on the way out as it was on the way in.
from_tt_score_same_sign(s, ply) == to_tt_score(s, ply)

from_tt_score(s, ply) ==
    IF s > kMateScoreThreshold THEN s - ply
    ELSE IF s < -kMateScoreThreshold THEN s + ply
    ELSE s

\* static_cast<int16_t>: the value modulo 2^16, in [-32768, 32767].
Int16(x) == ((x + 32768) % 65536) - 32768

\* TTEntry{}: the slot as clear() leaves it.  The key is a set of Zobrist
\* tokens, as board.zobrist_key is.
EmptyEntry ==
    [key |-> {}, depth |-> -1, score |-> 0, move |-> NullMove, flag |-> "Empty", age |-> 0]

\* probe_tt: the slot holds an entry of this key.
probe_tt(entry, key) == entry.flag # "Empty" /\ entry.key = key

\* probe_tt, lines 660-661: the entry handed back on a hit, its score brought
\* back to the ply of the probe.
ProbedEntry(entry, ply) == [entry EXCEPT !.score = Int16(from_tt_score(entry.score, ply))]

\* store_tt, line 671, were the generation of the slot not looked at.
Admits_by_depth(entry, d, gen) == entry.flag = "Empty" \/ entry.depth <= d

\* store_tt, line 671: whether the slot takes the new entry.
Admits(entry, d, gen) == entry.flag = "Empty" \/ entry.depth <= d \/ entry.age # gen

\* store_tt on the slot of the key: the slot after the call.  Depth and score
\* are narrowed to int16_t.
store_tt(entry, key, d, s, move, flag, ply, gen) ==
    IF Admits(entry, d, gen)
    THEN [key |-> key, depth |-> Int16(d), score |-> Int16(to_tt_score(s, ply)), move |-> move,
          flag |-> flag, age |-> gen]
    ELSE entry

\* extract_pv, lines 726-737, for the root: the first move of the line.  The
\* slots of the positions further down the line are not modelled, so the
\* line ends after its first move.
extract_pv(entry, b) ==
    IF entry.flag = "Empty" \/ entry.key # b.zobrist_key THEN << >>
    ELSE IF entry.move.from = entry.move.to /\ entry.move.from = 0 THEN << >>
    ELSE <<entry.move>>

\* search_root, lines 300-314, with the hash move put in front as if it were
\* one of the moves even when the list does not hold it.
SortRoot_hash_move_first(ms, hash_move) ==
    <<hash_move>> \o SelectSeq(ms, LAMBDA m : ~same_move(m, hash_move))

\* search_root, lines 300-314: the stable sort of the root moves.  The hash
\* move comes first; the history table and the victim/attacker order of the
\* captures are not modelled, the other moves stay in the generated order.
SortRoot(ms, hash_move) ==
    SelectSeq(ms, LAMBDA m : same_move(m, hash_move)) \o
    SelectSeq(ms, LAMBDA m : ~same_move(m, hash_move))

\* search_root, lines 292-298: the score of a root without a legal move,
\* were the stalemate scored as the mate is.
NoMoveScore_always_mated(checked) == -kMateValue + 1

\* search_root, lines 292-298: the score of a root without a legal move.
NoMoveScore(checked) == IF checked THEN -kMateValue + 1 ELSE 0

\* search_root, lines 389-394: the flag of the root's entry.
RootFlag(best_score, alpha_original, beta) ==
    IF best_score <= alpha_original THEN "Alpha"
    ELSE IF best_score >= beta THEN "Beta"
    ELSE "Exact"

\* Search::should_stop.  timed_out says that the time elapsed since
\* start_time_ has reached a time_limit_ that is positive.
should_stop(flag, node_limit, nodes, timed_out) ==
    \/ flag
    \/ (node_limit # 0 /\ nodes >= node_limit)
    \/ timed_out

\* search_impl, lines 197 and 234, were the flag never looked at there.
StopRequested_never(flag) == FALSE

\* search_impl, line 223, were the aspiration left as it is.
widened_aspiration_kept(aspiration) == aspiration

\* search_impl, line 223: the aspiration after a window that failed.
widened_aspiration(aspiration) == Min(aspiration * 2, kInfinity)

\* search_impl, lines 197 and 234: stop_flag.load().
StopRequested(flag) == flag

\* SearchResult{}
NoResult == [best_move |-> NullMove, score |-> 0, depth |-> 0, nodes |-> 0, pv |-> << >>]

\* search_impl, lines 250-259: the best move of the iteration recorded.
RecordedBestMove(pv, iteration_best, last_best, previous) ==
    IF pv # << >> THEN pv[1]
    ELSE IF iteration_best.from # 0 \/ iteration_best.to # 0 THEN iteration_best
    ELSE IF last_best.from # 0 \/ last_best.to # 0 THEN last_best
    ELSE previous

\* search_impl, lines 252-256: last_best after the iteration is recorded.
RecordedLastBest(pv, iteration_best, last_best) ==
    IF pv # << >> THEN pv[1]
    ELSE IF iteration_best.from # 0 \/ iteration_best.to # 0 THEN iteration_best
    ELSE last_best

\* UCI::report_bestmove: the line printed, token by token.
report_bestmove(result) ==
    IF result.best_move.from = result.best_move.to /\ result.best_move.from = 0
    THEN <<"bestmove", <<"0", "0", "0", "0">>>>
    ELSE <<"bestmove", move_to_string(result.best_move)>>

\* The values negamax gives back for a root move that neither mates nor
\* stalemates: one below the first window, one inside it, one above it.
Scores == {-30, 0, 25}

\* A root position as search_root sees it: its legal moves, whether the side
\* to move is in check, and for each move what negamax finds one ply down
\* (lines 479-485: no legal move, in check or not).
ChildKind(b, move) ==
    LET child == make_move(b, move).board
    IN  IF generate_legal_moves(child) # << >> THEN "open"
        ELSE IF in_check(child, child.side_to_move) THEN "mate"
        ELSE "stalemate"

RootInfo(b) ==
    LET ms == generate_legal_moves(b)
    IN  [moves |-> ms,
         in_check |-> in_check(b, b.side_to_move),
         kind |-> [i \in 1 .. Len(ms) |-> ChildKind(b, ms[i])]]

\* -negamax(...) of search_root_worker, line 418, for the move.
NegamaxValues(info, move) ==
    LET hits == {i \in 1 .. Len(info.moves) : same_move(info.moves[i], move)}
    IN  IF hits = {} THEN Scores
        ELSE IF info.kind[lsb(hits)] = "mate" THEN {kMateValue - 1}
        ELSE IF info.kind[lsb(hits)] = "stalemate" THEN {0}
        ELSE Scores

(***************************************************************************)
(* search.cpp: what negamax and quiescence compute on the way              *)
(***************************************************************************)
kNullMoveReduction == 2

piece_values == <<100, 320, 330, 500, 900, 20000>>

mvv_lva(move, b) ==
    IF ~is_capture(move) THEN 0
    ELSE LET victim == IF is_en_passant(move) THEN Pawn ELSE piece_type_at(b, move.to)
             attacker == piece_type_at(b, move.from)
         IN  piece_values[victim + 1] * 16 - piece_values[attacker + 1]

\* ctx.history[mover][from][to]: the table is kept as the entries written,
\* every other entry is the 0 of the memset.
HistoryAt(history, mover, from, to) ==
    IF <<mover, from, to>> \in DOMAIN history THEN history[<<mover, from, to>>] ELSE 0

history_score(history, move, mover) ==
    IF is_capture(move) \/ is_promotion(move) THEN 0
    ELSE HistoryAt(history, mover, move.from, move.to)

update_history(history, move, depth, mover) ==
    IF is_capture(move) \/ is_promotion(move) THEN history
    ELSE LET slot == <<mover, move.from, move.to>>
             entry == HistoryAt(history, mover, move.from, move.to) + depth * depth
         IN  [k \in DOMAIN history \cup {slot} |->
                 IF k = slot THEN (IF entry < -4000 THEN -4000 ELSE IF entry > 4000 THEN 4000 ELSE entry)
                 ELSE history[k]]

\* update_killers on the pair of a ply.
update_killers(killers, move) ==
    IF same_move(move, killers[1]) THEN killers ELSE <<move, killers[1]>>

\* negamax, lines 487-507: the key a move is ordered by.
move_order_key(move, b, tt_move, killers, history) ==
    IF same_move(move, tt_move) THEN <<3, 0, 0>>
    ELSE IF is_capture(move) THEN <<2, mvv_lva(move, b), 0>>
    ELSE <<(IF same_move(move, killers[1]) \/ same_move(move, killers[2]) THEN 1 ELSE 0),
           (IF same_move(move, killers[1]) THEN 2
            ELSE IF same_move(move, killers[2]) THEN 1 ELSE 0),
           history_score(history, move, b.side_to_move)>>

\* std::tuple's operator> on two keys.
KeyGreater(a, b) ==
    \/ a[1] > b[1]
    \/ (a[1] = b[1] /\ a[2] > b[2])
    \/ (a[1] = b[1] /\ a[2] = b[2] /\ a[3] > b[3])

\* The place a stable sort by decreasing key gives the i-th element.
SortedPlace(keys, i) ==
    1 + Cardinality({j \in 1 .. Len(keys) :
                        KeyGreater(keys[j], keys[i]) \/ (keys[j] = keys[i] /\ j < i)})

\* std::stable_sort of the moves by decreasing key (lines 509-511).  The
\* std::sort of quiescence (lines 609-611) is taken the same way: on the
\* short ranges sorted here it is an insertion sort, which keeps the order of
\* equal keys.
SortByKey(ms, keys) ==
    IF ms = << >> THEN << >>
    ELSE [k \in 1 .. Len(ms) |-> ms[CHOOSE i \in 1 .. Len(ms) : SortedPlace(keys, i) = k]]

\* negamax, lines 479-511: the legal moves in the order they are searched.
OrderedMoves(b, ms, tt_move, killers, history) ==
    SortByKey(ms, [i \in 1 .. Len(ms) |-> move_order_key(ms[i], b, tt_move, killers, history)])

\* quiescence, lines 600-611: the captures and promotions, in the order they
\* are searched.
OrderedCaptures(b, ms) ==
    LET captures == SelectSeq(ms, LAMBDA m : is_capture(m) \/ is_promotion(m))
    IN  SortByKey(captures, [i \in 1 .. Len(captures) |-> <<mvv_lva(captures[i], b), 0, 0>>])

\* std::count(repetition_stack.begin(), repetition_stack.end(), key).
CountKey(repetition_stack, key) ==
    Cardinality({i \in 1 .. Len(repetition_stack) : repetition_stack[i] = key})

\* negamax, line 439, were the clock compared with `>`.
FiftyMoveDraw_after_100(b) == b.halfmove_clock > 100

\* negamax, lines 439-441: the fifty-move rule.
FiftyMoveDraw(b) == b.halfmove_clock >= 100

\* negamax, line 442, were a fourth occurrence asked for.
RepetitionDraw_fourfold(repetition_stack, key) == CountKey(repetition_stack, key) >= 4

\* negamax, lines 442-444: the repetition.
RepetitionDraw(repetition_stack, key) == CountKey(repetition_stack, key) >= 3

\* negamax, lines 448-461: whether the entry probed ends the node.
TTCutoff(entry, depth, alpha, beta) ==
    /\ entry.depth >= depth
    /\ \/ entry.flag = "Exact"
       \/ (entry.flag = "Alpha" /\ entry.score <= alpha)
       \/ (entry.flag = "Beta" /\ entry.score >= beta)

\* negamax, line 467: whether the null move is tried.
TriesNullMove(checked, allow_null, depth, static_eval, beta) ==
    ~checked /\ allow_null /\ depth >= 3 /\ static_eval >= beta

\* negamax, line 527
CanReduce(move, gives_check, checked, depth, move_index) ==
    /\ ~is_capture(move) /\ ~is_promotion(move) /\ ~gives_check /\ ~checked
    /\ depth >= 3 /\ move_index >= 3

\* negamax, lines 529-530
ReducedDepth(depth, move_index) ==
    Max(1, depth - 1 - (1 + (IF move_index > 6 THEN 1 ELSE 0)))

\* The accumulator of a node, were the slot of the next ply read.
node_accumulator_of_next_ply(c, ply) == c.accumulator_stack[ply + 1]

\* negamax, line 463, and quiescence, line 591: ctx.accumulator_stack[ply],
\* the accumulator the node is evaluated on.
node_accumulator(c, ply) == c.accumulator_stack[ply]
(***************************************************************************)
(* uci.cpp: the lines read, the numbers parsed, the limits of a `go`       *)
(***************************************************************************)
\* A line is the sequence of its tokens, as tokenize gives them.  The words
\* the handlers compare by name are strings; a move, a number and a field of
\* a FEN are sequences of characters.
Digit ==
    [c \in {"0", "1", "2", "3", "4", "5", "6", "7", "8", "9"} |->
        CASE c = "0" -> 0 [] c = "1" -> 1 [] c = "2" -> 2 [] c = "3" -> 3 [] c = "4" -> 4
          [] c = "5" -> 5 [] c = "6" -> 6 [] c = "7" -> 7 [] c = "8" -> 8 [] c = "9" -> 9]

\* The value of the digits of the token from character i on, up to the
\* first character that is no digit.
RECURSIVE LeadingDigits(_, _, _)
LeadingDigits(token, i, value) ==
    IF i > Len(token) \/ token[i] \notin DOMAIN Digit THEN value
    ELSE LeadingDigits(token, i + 1, value * 10 + Digit[token[i]])

\* std::stoi: an optional sign, then digits; std::invalid_argument where no
\* digit follows, std::out_of_range where the value does not fit an int.
stoi(token) ==
    LET signed == token # << >> /\ token[1] \in {"+", "-"}
        start == IF signed THEN 2 ELSE 1
    IN  IF start > Len(token) \/ token[start] \notin DOMAIN Digit
        THEN [threw |-> TRUE, value |-> 0]
        ELSE LET magnitude == LeadingDigits(token, start, 0)
             IN  IF magnitude > 2147483647 THEN [threw |-> TRUE, value |-> 0]
                 ELSE [threw |-> FALSE,
                       value |-> IF signed /\ token[1] = "-" THEN -magnitude ELSE magnitude]

\* SearchLimits as handle_go sets it up (line 120); the clocks and the
\* increments, which no line modelled gives, are left out.
DefaultLimits == [max_depth |-> 64, node_limit |-> 0, move_time_ms |-> -1, infinite |-> FALSE]

\* The tokens of `go` that next_int / next_uint64 read a number after.
NumberTokens ==
    {"wtime", "btime", "winc", "binc", "movestogo", "depth", "nodes", "movetime", "mate"}

\* handle_go, lines 137-162: the field the number after the token goes to.
SetLimit(lim, token, value) ==
    CASE token = "depth" -> [lim EXCEPT !.max_depth = value]
      [] token = "nodes" -> [lim EXCEPT !.node_limit = value]
      [] token = "movetime" -> [lim EXCEPT !.move_time_ms = value]
      [] token = "mate" -> IF value > 0 THEN [lim EXCEPT !.max_depth = value * 2] ELSE lim
      [] OTHER -> lim

\* handle_go, lines 122-162: the loop over the tokens from token i on.
\* threw says that std::stoi / std::stoll has thrown; nothing in handle_go
\* catches it.
RECURSIVE ParseGo(_, _, _)
ParseGo(tokens, i, lim) ==
    IF i > Len(tokens) THEN [threw |-> FALSE, limits |-> lim]
    ELSE IF tokens[i] \in NumberTokens
    THEN IF i + 1 > Len(tokens) THEN ParseGo(tokens, i + 1, lim)
         ELSE LET n == stoi(tokens[i + 1])
              IN  IF n.threw THEN [threw |-> TRUE, limits |-> lim]
                  ELSE ParseGo(tokens, i + 2, SetLimit(lim, tokens[i], n.value))
    ELSE IF tokens[i] = "infinite" THEN ParseGo(tokens, i + 1, [lim EXCEPT !.infinite = TRUE])
    ELSE ParseGo(tokens, i + 1, lim)

\* handle_go, lines 118-169: the limits handed to start_search.
handle_go(tokens) ==
    LET r == ParseGo(tokens, 2, DefaultLimits)
    IN  [threw |-> r.threw,
         limits |-> IF r.limits.max_depth <= 0 THEN [r.limits EXCEPT !.max_depth = 64]
                    ELSE r.limits]

move_overhead_ms_ == 30

\* start_search, lines 250-252, and search_impl, lines 142-146: the limits
\* in the shape the search reads them.  There is a time limit when the
\* search is not infinite and the move time less the overhead is positive.
SearchLimitsOf(lim) ==
    [max_depth |-> lim.max_depth,
     node_limit |-> lim.node_limit,
     timed |-> ~lim.infinite /\ lim.move_time_ms > 0
               /\ Max(0, lim.move_time_ms - move_overhead_ms_) > 0]

\* handle_position: the board after the command, and whether the handler
\* has thrown ("Incomplete FEN in position command", or parse_move's
\* "Illegal move received").  A throw leaves the board as far as the
\* handler had changed it.
handle_position(b, tokens) ==
    IF Len(tokens) < 2 THEN [board |-> b, threw |-> FALSE]
    ELSE IF tokens[2] = "fen" /\ Len(tokens) < 8 THEN [board |-> b, threw |-> TRUE]
    ELSE LET placed == IF tokens[2] = "startpos" THEN set_from_fen(kStartFEN)
                       ELSE IF tokens[2] = "fen"
                       THEN set_from_fen(Fen(tokens[3], tokens[4], tokens[5], tokens[6],
                                             tokens[7], tokens[8]))
                       ELSE b
             index == IF tokens[2] = "startpos" THEN 3
                      ELSE IF tokens[2] = "fen" THEN 9
                      ELSE 2
         IN  IF index <= Len(tokens) /\ tokens[index] = "moves"
             THEN ReplayMoves(placed, tokens, index + 1)
             ELSE [board |-> placed, threw |-> FALSE]

\* handle_setoption for the options whose value is a number: failed says
\* that std::stoi has thrown, which the handler catches (lines 226-229).
handle_setoption(tokens) ==
    LET name == IF Len(tokens) >= 3 THEN tokens[3] ELSE ""
        value == IF Len(tokens) >= 5 /\ tokens[4] = "value" THEN tokens[5] ELSE << >>
    IN  [failed |-> name \in {"Hash", "Threads"} /\ stoi(value).threw]

\* The bestmove lines among the lines printed.
Bestmoves(lines) == Cardinality({i \in 1 .. Len(lines) : lines[i][1] = "bestmove"})

\* The `info string` lines among the lines printed.
InfoStrings(lines) == Cardinality({i \in 1 .. Len(lines) : lines[i][1] = "info string"})

(***************************************************************************)
(* tools/time_manager.h and tools/tuning.cpp: TimeHeuristicConfig and      *)
(* TimeManager::allocate_time_ms.  A double is kept as a fraction of two   *)
(* integers, the denominator positive.                                     *)
(***************************************************************************)
Fraction(num, den) == [num |-> num, den |-> den]
Whole(n) == Fraction(n, 1)
FractionTimes(x, y) == Fraction(x.num * y.num, x.den * y.den)
FractionPlus(x, y) == Fraction(x.num * y.den + y.num * x.den, x.den * y.den)
FractionLeq(x, y) == x.num * y.den <= y.num * x.den
FractionMin(x, y) == IF FractionLeq(y, x) THEN y ELSE x

\* static_cast<int> of a double that is not negative.
Truncated(x) == x.num \div x.den

\* std::clamp(v, lo, hi) as the library computes it when lo <= hi:
\* (v < lo) ? lo : (hi < v) ? hi : v.
FractionClamp(v, lo, hi) ==
    IF ~FractionLeq(lo, v) THEN lo
    ELSE IF ~FractionLeq(v, hi) THEN hi
    ELSE v

\* TimeHeuristicConfig, time_manager.h lines 7-12: 0.04, 0.5, 10, 2000.
DefaultTimeConfig ==
    [base_allocation |-> Fraction(1, 25), increment_bonus |-> Fraction(1, 2),
     min_time_ms |-> 10, max_time_ms |-> 2000]

\* allocate_time_ms, lines 159-164: 1.2 before move 20, 0.8 after move 60.
phase_boost(move_number) ==
    IF move_number < 20 THEN Fraction(6, 5)
    ELSE IF move_number > 60 THEN Fraction(4, 5)
    ELSE Whole(1)

\* allocate_time_ms, lines 153-155: the moves the clock is shared among.
moves_shared(moves_to_go) == IF moves_to_go <= 0 THEN 30 ELSE moves_to_go

\* allocate_time_ms, lines 157-170: the allocation before the clamp.
capped_allocation(config, remaining_ms, increment_ms, move_number, moves_to_go) ==
    FractionMin(FractionPlus(FractionTimes(FractionTimes(Whole(remaining_ms),
                                                         config.base_allocation),
                                           phase_boost(move_number)),
                             FractionTimes(Whole(increment_ms), config.increment_bonus)),
                Fraction(remaining_ms, moves_shared(moves_to_go)))

\* TimeManager::allocate_time_ms, for a config with min_time_ms <= max_time_ms.
allocate_time_ms(config, remaining_ms, increment_ms, move_number, moves_to_go) ==
    IF remaining_ms <= 0 THEN config.min_time_ms
    ELSE Truncated(FractionClamp(capped_allocation(config, remaining_ms, increment_ms,
                                                   move_number, moves_to_go),
                                 Whole(config.min_time_ms), Whole(config.max_time_ms)))
(***************************************************************************)
(* The state                                                               *)
(***************************************************************************)
VARIABLES
    board,      \* the Board: the one moves are made on, the root of a search,
                \* board_ of the UCI object
    stack,      \* the (move, State) pairs of the moves made and not yet undone,
                \* each with the board and the accumulator before the move
    acc,        \* accumulator_stack[ply]: the accumulator kept for `board`
    network,    \* the network the evaluator holds
    last,       \* the last call: its kind, the flags of its move, and the board
                \* before the make (which an undo has to give back); in a search,
                \* whether the last step was the `return 0` of should_stop()
    pc,         \* where the search thread is in search_impl / search_root
    root,       \* RootInfo of the board searched
    limits,     \* the SearchLimits as search_impl reads them
    stop_flag,  \* the std::atomic<bool> the caller hands to search
    nodes_total,\* nodes_total_
    time_up,    \* the time elapsed has reached time_limit_
    table,      \* the slot of the transposition table the root's key falls in
    generation, \* generation_
    si,         \* the locals of search_impl
    sr,         \* the locals of search_root
    out,        \* the lines printed on std::cout
    hist,       \* history kept for the properties: what the last iteration
                \* recorded, what the last iteration searched in full recorded,
                \* the iteration in progress when the stop flag was set, whether
                \* should_stop() has cut the iteration in progress short
    uci_pc,     \* where the command thread is: at std::getline, in the join of
                \* stop_search for the line read, in the join of ~UCI while an
                \* exception unwinds main, or out of main
    line,       \* the tokens of the line being handled
    search_thread,  \* search_thread_: no thread, one that runs, one that has
                \* printed its bestmove and is still to be joined
    threads_alive,  \* the search threads started and not yet joined
    searching,  \* searching_
    exit_code,  \* what main has returned, -1 while it runs
    err,        \* the lines printed on std::cerr
    tally,      \* history kept for the properties: the `go` lines read, the
                \* lines read that hold an input error, the first word of the
                \* last line handled to its end, the lines read
    ctx,        \* the ThreadContext of a negamax call: accumulator_stack,
                \* repetition_stack, killer_moves, history
    frames,     \* the calls of negamax and quiescence in progress, the
                \* innermost last, each with its arguments, its locals and
                \* the line it stands at
    ret,        \* the value the call that returned last gave back
    results,    \* the SearchResults the searches run so far have returned
    evaluator,  \* network_path_ and network_loaded_ of the Evaluator
    file,       \* the file at network_path_, as load_from_file reads it
    pool,       \* the threads of one search_root call: thread_count_, the holder
                \* of best_mutex, the threads spawned and joined, and the history
                \* kept for the properties (the indices handed out, the searches
                \* made, the threads that used each ThreadContext)
    workers,    \* for each thread that runs worker_fn, the line it stands at and
                \* its locals
    time_config \* the TimeHeuristicConfig of the UCI front end (time_config_),
                \* which set_time_manager copies into the TimeManager

boardVars == <<board, stack, acc, network, last>>
searchVars == <<pc, root, limits, stop_flag, nodes_total, time_up, table, generation,
                si, sr, out, hist>>
uciVars == <<uci_pc, line, search_thread, threads_alive, searching, exit_code, err, tally>>
nodeVars == <<ctx, frames, ret>>
runVars == <<results>>
loadVars == <<evaluator, file>>
poolVars == <<pool, workers>>
timeVars == <<time_config>>
\* What the board, the search loop and the UCI loop leave alone.
auxVars == <<nodeVars, runVars, loadVars, poolVars, timeVars>>
vars == <<boardVars, searchVars, uciVars, auxVars>>

\* The locals of search_impl at line 172.
InitialFrame ==
    [depth |-> 1, alpha |-> 0, beta |-> 0, aspiration |-> kInitialAspiration,
     previous_score |-> 0, score |-> 0, best |-> NoResult,
     last_best |-> NullMove, iteration_best |-> NullMove]

\* The locals of search_root before a call.
NoRootFrame ==
    [moves |-> << >>, next_index |-> 0, best_score |-> -kInfinity, alpha |-> 0,
     shared_alpha |-> 0, alpha_original |-> 0, cutoff |-> FALSE, idx |-> 0, value |-> 0]

NoHistory == [recorded |-> NoResult, completed |-> NoResult, stop_iter |-> 0, partial |-> FALSE]

\* No search: the values the search's variables keep while the board alone
\* is exercised.
SearchIdle ==
    /\ pc = "idle"
    /\ root = [moves |-> << >>, in_check |-> FALSE, kind |-> << >>]
    /\ limits = [max_depth |-> 1, node_limit |-> 0, timed |-> FALSE]
    /\ stop_flag = FALSE
    /\ nodes_total = 0
    /\ time_up = FALSE
    /\ table = EmptyEntry
    /\ generation = 0
    /\ si = InitialFrame
    /\ sr = NoRootFrame
    /\ out = << >>
    /\ hist = NoHistory


NoTally == [gos |-> 0, errors |-> 0, handled |-> "", lines |-> 0]

\* No UCI loop: the values its variables keep while the board or the search
\* alone is exercised.
UciIdle ==
    /\ uci_pc = "getline"
    /\ line = << >>
    /\ search_thread = "none"
    /\ threads_alive = 0
    /\ searching = FALSE
    /\ exit_code = -1
    /\ err = << >>
    /\ tally = NoTally

\* No call of negamax in progress.
NodeIdle ==
    /\ ctx = [accumulator_stack |-> << >>, repetition_stack |-> << >>,
              killer_moves |-> << >>, history |-> << >>]
    /\ frames = << >>
    /\ ret = 0

\* No file configured, the network in place.
LoadIdle ==
    /\ evaluator = [network_path |-> "", network_loaded |-> TRUE]
    /\ file = [opens |-> FALSE, words |-> << >>]

\* No search_root call with its threads.
PoolIdle == pool = [thread_count |-> 1] /\ workers = << >>

\* The TimeHeuristicConfig as it is declared.
TimeIdle == time_config = DefaultTimeConfig

AuxIdle == NodeIdle /\ results = << >> /\ LoadIdle /\ PoolIdle /\ TimeIdle
(***************************************************************************)
(* The board under make_move / undo_move                                   *)
(***************************************************************************)
\* The moves made and not yet undone, at most.
MaxPly == 2

\* The positions the boards start from: the start position; a position
\* where both sides may castle on both wings, with a pawn that may push two
\* squares next to an enemy pawn; a position where a double push is answered
\* by an en-passant capture; and a pawn on the seventh rank that may promote
\* by a push or by a capture.
StartPositions ==
    << kStartFEN,
       Fen(<<"r", "3", "k", "2", "r", "/", "3", "p", "4", "/", "8", "/", "4", "P", "3", "/",
             "8", "/", "8", "/", "8", "/", "R", "3", "K", "2", "R">>,
           "w", <<"K", "Q", "k", "q">>, <<"-">>, 0, 1),
       Fen(<<"4", "k", "3", "/", "3", "p", "4", "/", "8", "/", "4", "P", "3", "/",
             "8", "/", "8", "/", "8", "/", "4", "K", "3">>,
           "b", <<"-">>, <<"-">>, 0, 1),
       Fen(<<"1", "n", "2", "k", "3", "/", "P", "7", "/", "8", "/", "8", "/",
             "8", "/", "8", "/", "8", "/", "4", "K", "3">>,
           "w", <<"-">>, <<"-">>, 0, 1) >>

Networks == {"default", "file"}

NoCall == [op |-> "none", flags |-> {}, expect |-> EmptyBoard]

Init ==
    /\ \E i \in 1 .. Len(StartPositions) : board = set_from_fen(StartPositions[i])
    /\ stack = << >>
    /\ network \in Networks
    /\ acc = build_accumulator(network, board)
    /\ last = NoCall
    /\ SearchIdle
    /\ UciIdle
    /\ AuxIdle

\* One legal move is made, as negamax makes it: the accumulator of the child
\* is derived from the parent's, then make_move changes the board.
MakeMove ==
    /\ Len(stack) < MaxPly
    /\ \E move \in Range(generate_legal_moves(board)) :
         \E r \in {make_move(board, move)} :
             /\ board' = r.board
             /\ stack' = Append(stack, [move |-> move, state |-> r.state,
                                        before |-> board, acc |-> acc])
             /\ acc' = update_accumulator(network, board, move, acc)
             /\ last' = [op |-> "make", flags |-> move.flags, expect |-> board]
    /\ UNCHANGED <<network, searchVars, uciVars, auxVars>>

\* The last move made is undone; the search goes back to the parent's slot of
\* the accumulator stack.
UndoMove ==
    /\ stack # << >>
    /\ \E top \in {stack[Len(stack)]} :
         /\ board' = undo_move(board, top.move, top.state)
         /\ acc' = top.acc
         /\ last' = [op |-> "undo", flags |-> top.move.flags, expect |-> top.before]
    /\ stack' = SubSeq(stack, 1, Len(stack) - 1)
    /\ UNCHANGED <<network, searchVars, uciVars, auxVars>>

Next == MakeMove \/ UndoMove

Spec == Init /\ [][Next]_vars

(***************************************************************************)
(* Search::search_impl and Search::search_root on one search thread, and   *)
(* the thread of UCI::start_search that prints the result                  *)
(***************************************************************************)
\* The deepest max_depth a search is given.
MaxDepth == 2

\* nodes_total_ is counted up to this value; the node limits are below it.
MaxNodes == 3

\* The roots searched: the stalemate "7k/5Q2/6K1/8/8/8/8/8 b", a checkmate,
\* a root with one legal move, a root with three, and a root whose first
\* generated move mates.
RootFens ==
    << Fen(<<"7", "k", "/", "5", "Q", "2", "/", "6", "K", "1", "/",
             "8", "/", "8", "/", "8", "/", "8", "/", "8">>, "b", <<"-">>, <<"-">>, 0, 1),
       Fen(<<"7", "k", "/", "6", "Q", "1", "/", "6", "K", "1", "/",
             "8", "/", "8", "/", "8", "/", "8", "/", "8">>, "b", <<"-">>, <<"-">>, 0, 1),
       Fen(<<"k", "7", "/", "8", "/", "1", "K", "6", "/",
             "8", "/", "8", "/", "8", "/", "8", "/", "8">>, "b", <<"-">>, <<"-">>, 0, 1),
       Fen(<<"7", "k", "/", "8", "/", "8", "/",
             "8", "/", "8", "/", "8", "/", "8", "/", "K", "7">>, "w", <<"-">>, <<"-">>, 0, 1),
       Fen(<<"7", "k", "/", "5", "K", "1", "p", "/", "6", "P", "1", "/",
             "8", "/", "8", "/", "8", "/", "8", "/", "8">>, "w", <<"-">>, <<"-">>, 0, 1) >>

\* A move of another position: b1c3.
OtherMove == Mv(B1, B1 + 17, NoPiece, {})

\* An entry negamax leaves in the root's slot for another position (line 575).
OtherEntry(b, d, gen) ==
    [key |-> Xor(b.zobrist_key, side_key), depth |-> d, score |-> 0, move |-> OtherMove,
     flag |-> "Exact", age |-> gen]

\* What the root's slot may hold when a search starts: nothing, an entry an
\* earlier search left for another position, an entry an earlier search left
\* for this position (its move is then a legal move of the position).
InitialTables(b, info) ==
    {EmptyEntry, OtherEntry(b, MaxDepth + 1, 0)} \cup
    (IF info.moves = << >> THEN {}
     ELSE {[key |-> b.zobrist_key, depth |-> MaxDepth + 1, score |-> 0,
            move |-> info.moves[Len(info.moves)], flag |-> "Exact", age |-> 0]})

InitSearch ==
    /\ \E i \in 1 .. Len(RootFens) : board = set_from_fen(RootFens[i])
    /\ stack = << >>
    /\ network = "default"
    /\ acc = build_accumulator(network, board)
    /\ last = NoCall
    /\ pc = "idle"
    /\ root = RootInfo(board)
    /\ limits \in [max_depth : 1 .. MaxDepth, node_limit : {0, 1, 2}, timed : BOOLEAN]
    /\ stop_flag = FALSE
    /\ nodes_total = 0
    /\ time_up = FALSE
    /\ table \in InitialTables(board, root)
    /\ generation = 0
    /\ si = InitialFrame
    /\ sr = NoRootFrame
    /\ out = << >>
    /\ hist = NoHistory
    /\ UciIdle
    /\ AuxIdle

\* should_stop() in the state of the search.
ShouldStop == should_stop(stop_flag, limits.node_limit, nodes_total, limits.timed /\ time_up)

\* search_impl, lines 137-172.
SearchBegin ==
    /\ pc = "idle"
    /\ pc' = "loop_top"
    /\ generation' = (generation + 1) % 256
    /\ nodes_total' = 0
    /\ si' = InitialFrame
    /\ UNCHANGED <<boardVars, uciVars, auxVars, root, limits, stop_flag, time_up, table, sr, out, hist>>

\* search_impl, lines 174-194: the head of the iterative-deepening loop.
LoopTop ==
    /\ pc = "loop_top"
    /\ IF si.depth > Max(1, Min(limits.max_depth, 128)) \/ ShouldStop
       THEN /\ pc' = "finish"
            /\ UNCHANGED <<si, hist>>
       ELSE /\ pc' = "root"
            /\ si' = [si EXCEPT !.alpha = Max(-kInfinity, si.previous_score - si.aspiration),
                                !.beta = Min(kInfinity, si.previous_score + si.aspiration),
                                !.score = 0,
                                !.iteration_best = NullMove]
            /\ hist' = [hist EXCEPT !.partial = FALSE]
    /\ UNCHANGED <<boardVars, uciVars, auxVars, root, limits, stop_flag, nodes_total, time_up, table,
                   generation, sr, out>>

\* search_root, lines 285-339: the probe, the move list, the first move.
SearchRoot ==
    /\ pc = "root"
    /\ \E moves \in {SortRoot(root.moves, IF probe_tt(table, board.zobrist_key)
                                          THEN table.move ELSE NullMove)} :
         IF moves = << >>
         THEN /\ si' = [si EXCEPT !.score = NoMoveScore(root.in_check),
                                  !.iteration_best = IF root.in_check THEN @ ELSE NullMove]
              /\ pc' = "after_root"
              /\ UNCHANGED <<sr, nodes_total, table, hist>>
         ELSE \E stopped \in {ShouldStop} :
              \E value \in (IF stopped THEN {0} ELSE NegamaxValues(root, moves[1])) :
                /\ nodes_total' = IF stopped THEN nodes_total ELSE Min(nodes_total + 1, MaxNodes)
                /\ hist' = [hist EXCEPT !.partial = @ \/ stopped]
                /\ IF value >= si.beta
                   THEN /\ table' = store_tt(table, board.zobrist_key, si.depth, value,
                                             moves[1], "Beta", 0, generation)
                        /\ si' = [si EXCEPT !.score = value, !.iteration_best = moves[1]]
                        /\ pc' = "after_root"
                        /\ UNCHANGED sr
                   ELSE /\ sr' = [moves |-> moves, next_index |-> 2, best_score |-> value,
                                  alpha |-> Max(si.alpha, value),
                                  shared_alpha |-> Max(si.alpha, value),
                                  alpha_original |-> si.alpha,
                                  cutoff |-> si.alpha >= si.beta, idx |-> 0, value |-> 0]
                        /\ si' = [si EXCEPT !.iteration_best = moves[1]]
                        /\ pc' = "worker"
                        /\ UNCHANGED table
    /\ UNCHANGED <<boardVars, uciVars, auxVars, root, limits, stop_flag, time_up, generation, out>>

\* worker_fn, lines 343-352: the next root move is taken and searched.
Worker ==
    /\ pc = "worker"
    /\ IF sr.cutoff \/ ShouldStop
       THEN /\ pc' = "root_end"
            /\ hist' = [hist EXCEPT !.partial = @ \/ (~sr.cutoff /\ sr.next_index <= Len(sr.moves))]
            /\ UNCHANGED <<sr, nodes_total>>
       ELSE IF sr.next_index > Len(sr.moves)
       THEN /\ pc' = "root_end"
            /\ sr' = [sr EXCEPT !.next_index = @ + 1]
            /\ UNCHANGED <<hist, nodes_total>>
       ELSE \E value \in NegamaxValues(root, sr.moves[sr.next_index]) :
              /\ sr' = [sr EXCEPT !.idx = sr.next_index, !.next_index = @ + 1, !.value = value]
              /\ nodes_total' = Min(nodes_total + 1, MaxNodes)
              /\ pc' = "merge"
              /\ UNCHANGED hist
    /\ UNCHANGED <<boardVars, uciVars, auxVars, root, limits, stop_flag, time_up, table, generation, si, out>>

\* worker_fn, lines 353-369: the value of the move is merged, unless the
\* stop flag is set.
WorkerMerge ==
    /\ pc = "merge"
    /\ IF stop_flag
       THEN /\ pc' = "root_end"
            /\ hist' = [hist EXCEPT !.partial = TRUE]
            /\ UNCHANGED <<sr, si>>
       ELSE /\ sr' = [sr EXCEPT !.best_score = Max(@, sr.value),
                                !.shared_alpha = Max(@, sr.value),
                                !.cutoff = @ \/ sr.value >= si.beta]
            /\ si' = [si EXCEPT !.iteration_best =
                         IF sr.value > sr.best_score THEN sr.moves[sr.idx] ELSE @]
            /\ pc' = "worker"
            /\ UNCHANGED hist
    /\ UNCHANGED <<boardVars, uciVars, auxVars, root, limits, stop_flag, nodes_total, time_up, table,
                   generation, out>>

\* search_root, lines 385-396: the root's entry is stored, the score returned.
RootEnd ==
    /\ pc = "root_end"
    /\ \E best_score \in {IF sr.best_score = -kInfinity THEN sr.alpha ELSE sr.best_score} :
         /\ table' = store_tt(table, board.zobrist_key, si.depth, best_score, si.iteration_best,
                              RootFlag(best_score, sr.alpha_original, si.beta), 0, generation)
         /\ si' = [si EXCEPT !.score = best_score]
    /\ sr' = NoRootFrame
    /\ pc' = "after_root"
    /\ UNCHANGED <<boardVars, uciVars, auxVars, root, limits, stop_flag, nodes_total, time_up, generation,
                   out, hist>>

\* search_impl, lines 197-240: the stop flag, then the aspiration window.
AfterRoot ==
    /\ pc = "after_root"
    /\ IF StopRequested(stop_flag)
       THEN /\ pc' = "finish"
            /\ UNCHANGED si
       ELSE IF si.score <= si.alpha /\ si.alpha > -kInfinity
       THEN \E aspiration \in {widened_aspiration(si.aspiration)} :
              /\ si' = [si EXCEPT !.aspiration = aspiration,
                                  !.alpha = IF aspiration > kInfinity \div 2 THEN -kInfinity
                                            ELSE Max(-kInfinity, si.alpha - si.aspiration),
                                  !.beta = IF aspiration > kInfinity \div 2 THEN kInfinity ELSE @]
              /\ pc' = IF ShouldStop THEN "finish" ELSE "root"
       ELSE IF si.score > si.alpha /\ si.score >= si.beta /\ si.beta < kInfinity
       THEN \E aspiration \in {widened_aspiration(si.aspiration)} :
              /\ si' = [si EXCEPT !.aspiration = aspiration,
                                  !.alpha = IF aspiration > kInfinity \div 2 THEN -kInfinity ELSE @,
                                  !.beta = IF aspiration > kInfinity \div 2 THEN kInfinity
                                           ELSE Min(kInfinity, si.beta + si.aspiration)]
              /\ pc' = IF ShouldStop THEN "finish" ELSE "root"
       ELSE /\ pc' = "record"
            /\ UNCHANGED si
    /\ UNCHANGED <<boardVars, uciVars, auxVars, root, limits, stop_flag, nodes_total, time_up, table,
                   generation, sr, out, hist>>

\* search_impl, lines 242-270: the iteration is recorded in `best`.
Record ==
    /\ pc = "record"
    /\ \E pv \in {extract_pv(table, board)} :
       \E best \in {[best_move |-> RecordedBestMove(pv, si.iteration_best, si.last_best,
                                                    si.best.best_move),
                     score |-> si.score, depth |-> si.depth, nodes |-> nodes_total,
                     pv |-> pv]} :
       \E leave \in {Abs(si.score) > kMateScoreThreshold
                     \/ (limits.node_limit # 0 /\ nodes_total >= limits.node_limit)} :
         /\ si' = [si EXCEPT !.previous_score = si.score,
                             !.aspiration = kInitialAspiration,
                             !.best = best,
                             !.last_best = RecordedLastBest(pv, si.iteration_best, si.last_best),
                             !.depth = IF leave THEN @ ELSE @ + 1]
         /\ pc' = IF leave THEN "finish" ELSE "loop_top"
         /\ hist' = [hist EXCEPT !.recorded = best,
                                 !.completed = IF hist.partial THEN @ ELSE best]
    /\ UNCHANGED <<boardVars, uciVars, auxVars, root, limits, stop_flag, nodes_total, time_up, table,
                   generation, sr, out>>

\* search_impl, lines 273-281: the result is returned.
Finish ==
    /\ pc = "finish"
    /\ si' = [si EXCEPT !.best.best_move =
                 IF is_null_move(@) /\ ~is_null_move(si.last_best) THEN si.last_best ELSE @]
    /\ pc' = "returned"
    /\ UNCHANGED <<boardVars, uciVars, auxVars, root, limits, stop_flag, nodes_total, time_up, table,
                   generation, sr, out, hist>>

\* The thread of start_search, uci.cpp lines 263-270: the result is printed.
ReportBestmove ==
    /\ pc = "returned"
    /\ out' = Append(out, report_bestmove(si.best))
    /\ pc' = "reported"
    /\ UNCHANGED <<boardVars, uciVars, auxVars, root, limits, stop_flag, nodes_total, time_up, table,
                   generation, si, sr, hist>>

\* The iteration at si.depth has begun and search_impl has not yet looked at
\* the stop flag after it (line 197).
IterationInProgress == pc \in {"root", "worker", "merge", "root_end", "after_root"}

\* UCI::stop_search, line 275, on the command thread: the flag is set while
\* the search thread runs.
SetStop ==
    /\ pc # "reported"
    /\ ~stop_flag
    /\ stop_flag' = TRUE
    /\ hist' = [hist EXCEPT !.stop_iter = IF IterationInProgress THEN si.depth ELSE 0]
    /\ UNCHANGED <<boardVars, uciVars, auxVars, pc, root, limits, nodes_total, time_up, table, generation,
                   si, sr, out>>

\* The time elapsed reaches the time budget of the search.
Tick ==
    /\ pc \notin {"returned", "reported"}
    /\ limits.timed
    /\ ~time_up
    /\ time_up' = TRUE
    /\ UNCHANGED <<boardVars, uciVars, auxVars, pc, root, limits, stop_flag, nodes_total, table, generation,
                   si, sr, out, hist>>

\* negamax, line 575, below the root: the entry of another position, searched
\* to the depth left under the root (or to depth 1 from quiescence, line 588),
\* goes to the root's slot.  Within the depths searched no line leads back
\* to the root's own position.
NegamaxStore ==
    /\ pc \in {"worker", "merge"}
    /\ table' = store_tt(table, Xor(board.zobrist_key, side_key), Max(si.depth - 1, 1), 0,
                         OtherMove, "Exact", 1, generation)
    /\ table' # table
    /\ UNCHANGED <<boardVars, uciVars, auxVars, pc, root, limits, stop_flag, nodes_total, time_up, generation,
                   si, sr, out, hist>>

NextSearch ==
    \/ SearchBegin
    \/ LoopTop
    \/ SearchRoot
    \/ Worker
    \/ WorkerMerge
    \/ RootEnd
    \/ AfterRoot
    \/ Record
    \/ Finish
    \/ ReportBestmove
    \/ SetStop
    \/ Tick
    \/ NegamaxStore

SpecSearch == InitSearch /\ [][NextSearch]_vars

(***************************************************************************)
(* UCI::loop on the command thread, the search thread of start_search,     *)
(* and main around them                                                    *)
(***************************************************************************)
\* The lines read from std::cin before its end, at most.
MaxLines == 3

\* The lines given: the commands of the protocol, among them a `setoption`
\* with a value that is no number, a `position` with a move that is not
\* legal, a `position fen` of the stalemate "7k/5Q2/6K1/8/8/8/8/8 b - - 0 1",
\* a `position fen` that is cut short, and a `go depth` with no number.
InputLines ==
    << <<"uci">>,
       <<"isready">>,
       <<"ucinewgame">>,
       <<"setoption", "name", "Hash", "value", <<"3", "2">>>>,
       <<"setoption", "name", "Hash", "value", <<"x">>>>,
       <<"position", "startpos">>,
       <<"position", "startpos", "moves", <<"e", "2", "e", "4">>>>,
       <<"position", "startpos", "moves", <<"e", "2", "e", "5">>>>,
       <<"position", "fen", <<"7", "k", "/", "5", "Q", "2", "/", "6", "K", "1", "/",
                              "8", "/", "8", "/", "8", "/", "8", "/", "8">>,
         "b", <<"-">>, <<"-">>, 0, 1>>,
       <<"position", "fen", <<"8", "/", "8">>, "w">>,
       <<"go">>,
       <<"go", "depth", <<"2">>>>,
       <<"go", "infinite">>,
       <<"go", "nodes", <<"1">>>>,
       <<"go", "depth", <<"x">>>>,
       <<"stop">>,
       <<"quit">> >>

\* UCI::UCI, and main before uci.loop().
InitUCI ==
    /\ board = set_from_fen(kStartFEN)
    /\ stack = << >>
    /\ network = "default"
    /\ acc = build_accumulator(network, board)
    /\ last = NoCall
    /\ SearchIdle
    /\ UciIdle
    /\ AuxIdle

\* std::getline can give a line.
CanRead == uci_pc = "getline" /\ tally.lines < MaxLines

\* The other variables of the board and of the search, which the loop does
\* not touch.
restVars == <<stack, acc, network, last, pc, nodes_total, time_up, si, sr, hist, auxVars>>

\* join_thread has returned: the thread that was joined is no longer alive.
AliveAfterJoin == IF search_thread = "none" THEN threads_alive ELSE threads_alive - 1

\* loop, lines 42-59: `uci` and `isready` are answered.
Answer ==
    /\ CanRead
    /\ \E i \in 1 .. Len(InputLines) :
         /\ InputLines[i][1] \in {"uci", "isready"}
         /\ line' = InputLines[i]
         /\ out' = Append(out, <<IF InputLines[i][1] = "uci" THEN "uciok" ELSE "readyok">>)
         /\ tally' = [tally EXCEPT !.lines = @ + 1, !.handled = InputLines[i][1]]
    /\ UNCHANGED <<board, root, limits, stop_flag, table, generation, restVars, uci_pc,
                   search_thread, threads_alive, searching, exit_code, err>>

\* loop, lines 64-65, and handle_setoption: the search is not stopped; a
\* value that is no number is reported as an `info string`.
SetOption ==
    /\ CanRead
    /\ \E i \in 1 .. Len(InputLines) :
         /\ InputLines[i][1] = "setoption"
         /\ line' = InputLines[i]
         /\ \E r \in {handle_setoption(InputLines[i])} :
              /\ out' = IF r.failed
                        THEN Append(out, <<"info string", "Failed to set option">>)
                        ELSE out
              /\ tally' = [tally EXCEPT !.lines = @ + 1, !.handled = "setoption",
                                        !.errors = IF r.failed THEN @ + 1 ELSE @]
    /\ UNCHANGED <<board, root, limits, stop_flag, table, generation, restVars, uci_pc,
                   search_thread, threads_alive, searching, exit_code, err>>

\* loop, lines 60-77: `ucinewgame`, `position`, `stop` and `quit` begin with
\* stop_search(true), which sets the flag (line 275) and then joins.
BeginStopSearch ==
    /\ CanRead
    /\ \E i \in 1 .. Len(InputLines) :
         /\ InputLines[i][1] \in {"ucinewgame", "position", "stop", "quit"}
         /\ line' = InputLines[i]
    /\ stop_flag' = TRUE
    /\ uci_pc' = "join"
    /\ tally' = [tally EXCEPT !.lines = @ + 1]
    /\ UNCHANGED <<board, root, limits, out, table, generation, restVars,
                   search_thread, threads_alive, searching, exit_code, err>>

\* handle_go, lines 118-169, up to the join in start_search.  Where
\* std::stoi throws, the exception leaves handle_go, loop and the try block
\* of main; ~UCI then runs stop_search(true).
BeginGo ==
    /\ CanRead
    /\ \E i \in 1 .. Len(InputLines) :
         /\ InputLines[i][1] = "go"
         /\ line' = InputLines[i]
         /\ \E r \in {handle_go(InputLines[i])} :
              /\ uci_pc' = IF r.threw THEN "unwind" ELSE "join"
              /\ tally' = [tally EXCEPT !.lines = @ + 1, !.gos = @ + 1,
                                        !.errors = IF r.threw THEN @ + 1 ELSE @]
    /\ stop_flag' = TRUE
    /\ UNCHANGED <<board, root, limits, out, table, generation, restVars,
                   search_thread, threads_alive, searching, exit_code, err>>

\* std::getline fails at the end of the input: loop returns, ~UCI runs
\* stop_search(true).
EndOfInput ==
    /\ uci_pc = "getline"
    /\ line' = << >>
    /\ stop_flag' = TRUE
    /\ uci_pc' = "leave"
    /\ UNCHANGED <<board, root, limits, out, table, generation, restVars,
                   search_thread, threads_alive, searching, exit_code, err, tally>>

\* join_thread returns once the search thread has ended.
Joined(where) == uci_pc = where /\ search_thread # "running"

\* loop, lines 60-63: `ucinewgame` after the join.
NewGame ==
    /\ Joined("join")
    /\ line[1] = "ucinewgame"
    /\ board' = set_from_fen(kStartFEN)
    /\ table' = EmptyEntry
    /\ generation' = 0
    /\ search_thread' = "none"
    /\ threads_alive' = AliveAfterJoin
    /\ searching' = FALSE
    /\ stop_flag' = FALSE
    /\ uci_pc' = "getline"
    /\ tally' = [tally EXCEPT !.handled = "ucinewgame"]
    /\ UNCHANGED <<root, limits, out, restVars, line, exit_code, err>>

\* loop, lines 66-68: handle_position after the join.  Nothing catches what
\* it throws: ~UCI runs next.
Position ==
    /\ Joined("join")
    /\ line[1] = "position"
    /\ \E r \in {handle_position(board, line)} :
         /\ board' = r.board
         /\ uci_pc' = IF r.threw THEN "unwind" ELSE "getline"
         /\ stop_flag' = r.threw
         /\ tally' = [tally EXCEPT !.handled = IF r.threw THEN @ ELSE "position",
                                   !.errors = IF r.threw THEN @ + 1 ELSE @]
    /\ search_thread' = "none"
    /\ threads_alive' = AliveAfterJoin
    /\ searching' = FALSE
    /\ UNCHANGED <<root, limits, out, table, generation, restVars, line, exit_code, err>>

\* start_search, lines 243-271, after the join: the thread is started on a
\* copy of the board.
StartSearch ==
    /\ Joined("join")
    /\ line[1] = "go"
    /\ limits' = SearchLimitsOf(handle_go(line).limits)
    /\ \E ms \in {generate_legal_moves(board)} :
         root' = [moves |-> ms, in_check |-> in_check(board, board.side_to_move),
                  kind |-> << >>]
    /\ stop_flag' = FALSE
    /\ searching' = TRUE
    /\ search_thread' = "running"
    /\ threads_alive' = AliveAfterJoin + 1
    /\ uci_pc' = "getline"
    /\ tally' = [tally EXCEPT !.handled = "go"]
    /\ UNCHANGED <<board, out, table, generation, restVars, line, exit_code, err>>

\* loop, lines 71-72: `stop` after the join.
Stopped ==
    /\ Joined("join")
    /\ line[1] = "stop"
    /\ search_thread' = "none"
    /\ threads_alive' = AliveAfterJoin
    /\ searching' = FALSE
    /\ stop_flag' = FALSE
    /\ uci_pc' = "getline"
    /\ tally' = [tally EXCEPT !.handled = "stop"]
    /\ UNCHANGED <<board, root, limits, out, table, generation, restVars, line, exit_code, err>>

\* loop, lines 73-76, `quit` after the join, and the end of the input: the
\* loop is left, ~UCI finds no thread to join, main returns 0.
Leave ==
    /\ \/ Joined("join") /\ line[1] = "quit"
       \/ Joined("leave")
    /\ search_thread' = "none"
    /\ threads_alive' = AliveAfterJoin
    /\ searching' = FALSE
    /\ stop_flag' = FALSE
    /\ uci_pc' = "exited"
    /\ exit_code' = 0
    /\ tally' = [tally EXCEPT !.handled = IF line = << >> THEN @ ELSE "quit"]
    /\ UNCHANGED <<board, root, limits, out, table, generation, restVars, line, err>>

\* main, lines 507-510: the exception of a handler has destroyed the UCI
\* object (~UCI joins the search thread); main prints "Fatal error" on
\* std::cerr and returns 1.
Unwind ==
    /\ Joined("unwind")
    /\ search_thread' = "none"
    /\ threads_alive' = AliveAfterJoin
    /\ searching' = FALSE
    /\ stop_flag' = FALSE
    /\ err' = Append(err, "Fatal error")
    /\ exit_code' = 1
    /\ uci_pc' = "exited"
    /\ UNCHANGED <<board, root, limits, out, table, generation, restVars, line, tally>>

\* The thread of start_search, lines 261-271: search returns, the bestmove
\* is printed, searching_ is cleared.  The move is one of the legal moves of
\* the board searched; it is the null move where there is none, or where the
\* flag or the time has ended the search before its first iteration was
\* recorded.
SearchThread ==
    /\ search_thread = "running"
    /\ \E m \in Range(root.moves) \cup {NullMove} :
         /\ is_null_move(m) => (root.moves = << >> \/ stop_flag \/ limits.timed)
         /\ out' = Append(out, report_bestmove([NoResult EXCEPT !.best_move = m]))
    /\ searching' = FALSE
    /\ search_thread' = "finished"
    /\ UNCHANGED <<board, root, limits, stop_flag, table, generation, restVars, uci_pc, line,
                   threads_alive, exit_code, err, tally>>

NextUCI ==
    \/ Answer
    \/ SetOption
    \/ BeginStopSearch
    \/ BeginGo
    \/ EndOfInput
    \/ NewGame
    \/ Position
    \/ StartSearch
    \/ Stopped
    \/ Leave
    \/ Unwind
    \/ SearchThread

SpecUCI == InitUCI /\ [][NextUCI]_vars

(***************************************************************************)
(* Search::negamax and Search::quiescence, call by call.  A call in        *)
(* progress is a frame: its arguments, its locals and the line it stands   *)
(* at.  The Search has a table of one entry (table_size 1), so every key   *)
(* falls in the slot `table`.                                              *)
(***************************************************************************)
\* The deepest depth negamax is entered with.
MaxNodeDepth == 3

\* The slots of accumulator_stack and of killer_moves modelled: the plies a
\* line of MaxNodeDepth moves and the captures after it can reach.
StackSlots == 0 .. MaxNodeDepth + 4

\* The positions negamax is entered at: "8/8/8/8/8/8/PPP5/K6k w" of
\* SearchNullMove.PreservesAccumulatorState; the same material after 100
\* and after 99 halfmoves without a capture or a pawn move; a position with
\* captures, one of them en passant; a side to move that is in check; a
\* checkmate; a stalemate.
NodeFens ==
    << Fen(<<"8", "/", "8", "/", "8", "/", "8", "/", "8", "/", "8", "/",
             "P", "P", "P", "5", "/", "K", "6", "k">>, "w", <<"-">>, <<"-">>, 0, 1),
       Fen(<<"8", "/", "8", "/", "8", "/", "8", "/", "8", "/", "8", "/",
             "P", "P", "P", "5", "/", "K", "6", "k">>, "w", <<"-">>, <<"-">>, 100, 60),
       Fen(<<"8", "/", "8", "/", "8", "/", "8", "/", "8", "/", "8", "/",
             "P", "P", "P", "5", "/", "K", "6", "k">>, "b", <<"-">>, <<"-">>, 99, 60),
       Fen(<<"7", "k", "/", "8", "/", "8", "/", "2", "p", "P", "4", "/",
             "4", "p", "3", "/", "3", "P", "4", "/", "8", "/", "K", "7">>,
           "w", <<"-">>, <<"c", "6">>, 0, 5),
       Fen(<<"7", "k", "/", "8", "/", "8", "/", "8", "/", "8", "/", "8", "/",
             "8", "/", "K", "6", "r">>, "w", <<"-">>, <<"-">>, 3, 9),
       Fen(<<"7", "k", "/", "6", "Q", "1", "/", "6", "K", "1", "/",
             "8", "/", "8", "/", "8", "/", "8", "/", "8">>, "b", <<"-">>, <<"-">>, 0, 1),
       Fen(<<"7", "k", "/", "5", "Q", "2", "/", "6", "K", "1", "/",
             "8", "/", "8", "/", "8", "/", "8", "/", "8">>, "b", <<"-">>, <<"-">>, 0, 1) >>

\* The windows negamax is entered with: the one of the test, and the widest.
Windows == {<<0, 50>>, <<-kInfinity, kInfinity>>}

\* Board::State before a move fills it.
NoState == Snapshot(EmptyBoard)

\* The frame of a call at its first line.  via_null says that the caller
\* is line 471, the search of the null move.
Frame(fn, depth, alpha, beta, allow_null, ply, via_null) ==
    [fn |-> fn, at |-> "entry", depth |-> depth, alpha |-> alpha, beta |-> beta,
     allow_null |-> allow_null, ply |-> ply, via_null |-> via_null,
     in_check |-> FALSE, tt_move |-> NullMove, static_eval |-> 0, alpha_original |-> alpha,
     moves |-> << >>, move_index |-> 0, best_move |-> NullMove, best_score |-> -kInfinity,
     state |-> NoState]

\* What a slot of accumulator_stack above the ply of the call holds: nothing,
\* in a ThreadContext no search has used, or what an earlier node left there.
StaleAccumulators(net) ==
    {EmptyAccumulator, build_accumulator(net, set_from_fen(NodeFens[4]))}

\* What repetition_stack holds when negamax is entered: the keys of the
\* positions of the line, the key of the node last (its caller pushed it).
\* The line has come to the node once, twice or three times.
Lines(b) ==
    LET k == b.zobrist_key
        o == Xor(k, side_key)
    IN  {<<k>>, <<k, o, k>>, <<k, o, k, o, k>>}

\* The line g1f3 g8f6 f3g1 f6g8, played twice from the start position.
RepetitionLine ==
    << <<"g", "1", "f", "3">>, <<"g", "8", "f", "6">>, <<"f", "3", "g", "1">>,
       <<"f", "6", "g", "8">>, <<"g", "1", "f", "3">>, <<"g", "8", "f", "6">>,
       <<"f", "3", "g", "1">>, <<"f", "6", "g", "8">> >>

\* The boards a line of moves goes through, the first and the last included.
RECURSIVE BoardsAlong(_, _, _)
BoardsAlong(b, tokens, i) ==
    IF i > Len(tokens) THEN <<b>>
    ELSE <<b>> \o BoardsAlong(make_move(b, parse_move(b, tokens[i]).move).board, tokens, i + 1)

\* The boards of RepetitionLine.
RepetitionBoards == BoardsAlong(set_from_fen(kStartFEN), RepetitionLine, 1)

\* The boards negamax is entered at: those of NodeFens, and the last of
\* RepetitionLine.
NodeBoards ==
    {set_from_fen(NodeFens[i]) : i \in 1 .. Len(NodeFens)}
        \cup {RepetitionBoards[Len(RepetitionBoards)]}

\* The repetition stacks negamax is entered with at b: for the last board of
\* RepetitionLine the keys of the boards of the line, for another board
\* Lines(b).
NodeLines(b) ==
    IF b.fullmove_number = 5 /\ b.halfmove_clock = 8
    THEN {[i \in 1 .. Len(RepetitionBoards) |-> RepetitionBoards[i].zobrist_key]}
    ELSE Lines(b)

\* What the table holds when negamax is entered: nothing, or an entry of the
\* node deep enough to end it at the probe.
NodeTables(b) ==
    {EmptyEntry,
     [key |-> b.zobrist_key, depth |-> MaxNodeDepth + 1, score |-> 77, move |-> NullMove,
      flag |-> "Exact", age |-> 0]}

InitNegamax ==
    /\ board \in NodeBoards
    /\ stack = << >>
    /\ network \in Networks
    /\ acc = build_accumulator(network, board)
    /\ last = NoCall
    /\ pc = "idle"
    /\ root = [moves |-> << >>, in_check |-> FALSE, kind |-> << >>]
    /\ limits \in [max_depth : {MaxNodeDepth + 1}, node_limit : {0, 2}, timed : {FALSE}]
    /\ stop_flag = FALSE
    /\ nodes_total = 0
    /\ time_up = FALSE
    /\ table \in NodeTables(board)
    /\ generation = 1
    /\ si = InitialFrame
    /\ sr = NoRootFrame
    /\ out = << >>
    /\ hist = NoHistory
    /\ UciIdle
    /\ \E stale \in StaleAccumulators(network), seen \in NodeLines(board) :
         ctx = [accumulator_stack |-> [p \in StackSlots |-> IF p = 1 THEN acc ELSE stale],
                repetition_stack |-> seen,
                killer_moves |-> [p \in StackSlots |-> <<NullMove, NullMove>>],
                history |-> << >>]
    /\ \E depth \in 0 .. MaxNodeDepth, w \in Windows :
         /\ frames = <<Frame("negamax", depth, w[1], w[2], TRUE, 1, FALSE)>>
         \* the deep calls that neither a draw nor the table ends at once are
         \* entered on a line without a repetition, without a node limit
         /\ (depth >= 2 /\ table = EmptyEntry /\ ~FiftyMoveDraw(board)
                /\ Len(ctx.repetition_stack) < 5)
               => (Len(ctx.repetition_stack) = 1 /\ limits.node_limit = 0
                   /\ network = "default")
    /\ ret = 0
    /\ results = << >>
    /\ LoadIdle
    /\ PoolIdle /\ TimeIdle

\* The state the calls work on.
\* aborted says that the step is the `return 0` of should_stop().
Machine ==
    [board |-> board, ctx |-> ctx, frames |-> frames, ret |-> ret, table |-> table,
     aborted |-> FALSE]

Top == frames[Len(frames)]

\* `return v;`
Return(m, v) == [m EXCEPT !.frames = SubSeq(m.frames, 1, Len(m.frames) - 1), !.ret = v]

\* negamax, lines 425-427, and quiescence, lines 580-582: should_stop() holds,
\* the call returns the sentinel 0.
Abort(m) == [Return(m, 0) EXCEPT !.aborted = TRUE]

\* The call goes on at another line.
Goto(m, f) == [m EXCEPT !.frames[Len(m.frames)] = f]

\* The call stands at a line, in a call of its own.
Call(m, f, child) == [m EXCEPT !.frames = Append([m.frames EXCEPT ![Len(m.frames)] = f], child)]

\* negamax, lines 518-537: the move at move_index is made and searched.
StartMove(m, f) ==
    LET move == f.moves[f.move_index + 1]
        dest == update_accumulator(network, m.board, move, m.ctx.accumulator_stack[f.ply])
        r == make_move(m.board, move)
        gives_check == in_check(r.board, r.board.side_to_move)
        reduce == CanReduce(move, gives_check, f.in_check, f.depth, f.move_index)
        made == [m EXCEPT !.board = r.board,
                          !.ctx.accumulator_stack[f.ply + 1] = dest,
                          !.ctx.repetition_stack = Append(@, r.board.zobrist_key)]
    IN  IF reduce
        THEN Call(made, [f EXCEPT !.at = "reduced", !.state = r.state],
                  Frame("negamax", ReducedDepth(f.depth, f.move_index), -f.alpha - 1, -f.alpha,
                        TRUE, f.ply + 1, FALSE))
        ELSE Call(made, [f EXCEPT !.at = "full", !.state = r.state],
                  Frame("negamax", f.depth - 1, -f.beta, -f.alpha, TRUE, f.ply + 1, FALSE))

\* negamax, lines 564-576: the node's entry is stored, best_score returned.
FinishNode(m, f) ==
    LET best_move == IF is_null_move(f.best_move) THEN f.moves[1] ELSE f.best_move
        flag == RootFlag(f.best_score, f.alpha_original, f.beta)
    IN  Return([m EXCEPT !.table = store_tt(m.table, m.board.zobrist_key, f.depth, f.best_score,
                                            best_move, flag, f.ply, generation)],
               f.best_score)

\* negamax, lines 479-516: the moves are generated and ordered, the first one
\* is searched.
Generate(m, f) ==
    LET ms == generate_legal_moves(m.board)
    IN  IF ms = << >> THEN Return(m, IF f.in_check THEN -kMateValue + f.ply ELSE 0)
        ELSE StartMove(m, [f EXCEPT !.moves = OrderedMoves(m.board, ms, f.tt_move,
                                                           m.ctx.killer_moves[f.ply],
                                                           m.ctx.history),
                                    !.move_index = 0,
                                    !.best_move = NullMove,
                                    !.best_score = -kInfinity])

\* negamax, lines 539-561: the score of the move searched is taken, the move
\* undone; the loop ends on a cutoff or goes to its next move.
Process(m, f, score) ==
    LET move == f.moves[f.move_index + 1]
        quiet == ~is_capture(move) /\ ~is_promotion(move)
        alpha == Max(f.alpha, score)
        b == undo_move(m.board, move, f.state)
        f1 == [f EXCEPT !.best_score = Max(@, score),
                        !.best_move = IF score > f.best_score THEN move ELSE @,
                        !.alpha = alpha]
        undone == [m EXCEPT !.board = b,
                            !.ctx.repetition_stack = SubSeq(@, 1, Len(@) - 1)]
    IN  IF alpha >= f.beta
        THEN FinishNode(IF quiet
                    THEN [undone EXCEPT
                            !.ctx.killer_moves[f.ply] = update_killers(@, move),
                            !.ctx.history = update_history(@, move, f.depth, b.side_to_move)]
                    ELSE undone,
                    f1)
        ELSE LET kept == IF quiet /\ alpha > f.static_eval
                         THEN [undone EXCEPT !.ctx.history =
                                  update_history(@, move, f.depth, b.side_to_move)]
                         ELSE undone
                 f2 == [f1 EXCEPT !.move_index = @ + 1]
             IN  IF f2.move_index < Len(f2.moves) THEN StartMove(kept, f2) ELSE FinishNode(kept, f2)

\* quiescence, lines 612-617: the capture at move_index is made and searched;
\* line 629 when none is left.
StartCapture(m, f) ==
    IF f.move_index >= Len(f.moves) THEN Return(m, f.alpha)
    ELSE LET move == f.moves[f.move_index + 1]
             dest == update_accumulator(network, m.board, move, m.ctx.accumulator_stack[f.ply])
             r == make_move(m.board, move)
         IN  Call([m EXCEPT !.board = r.board,
                            !.ctx.accumulator_stack[f.ply + 1] = dest,
                            !.ctx.repetition_stack = Append(@, r.board.zobrist_key)],
                  [f EXCEPT !.at = "capture", !.state = r.state],
                  Frame("quiescence", 0, -f.beta, -f.alpha, FALSE, f.ply + 1, FALSE))

\* The machine takes the step o.
Becomes(o) ==
    /\ board' = o.board
    /\ ctx' = o.ctx
    /\ frames' = o.frames
    /\ ret' = o.ret
    /\ table' = o.table
    /\ last' = [NoCall EXCEPT !.op = IF o.aborted THEN "abort" ELSE "step"]

nodeRest == <<stack, acc, network, pc, root, limits, stop_flag, time_up, generation,
              si, sr, out, hist, uciVars, runVars, loadVars, poolVars, timeVars>>

\* nodes_total_.fetch_add(1), counted up to MaxNodes.
CountNode == nodes_total' = Min(nodes_total + 1, MaxNodes)

\* negamax, lines 425-464: from the entry to the static evaluation.
NegamaxEntry ==
    /\ frames # << >>
    /\ Top.fn = "negamax" /\ Top.at = "entry"
    /\ IF ShouldStop
       THEN Becomes(Abort(Machine)) /\ UNCHANGED nodes_total
       ELSE /\ CountNode
            /\ \E f \in {[Top EXCEPT !.in_check = in_check(board, board.side_to_move)]} :
                 IF f.depth <= 0
                 THEN Becomes(Goto(Machine, Frame("quiescence", 0, f.alpha, f.beta, FALSE,
                                                  f.ply, f.via_null)))
                 ELSE IF FiftyMoveDraw(board) THEN Becomes(Return(Machine, 0))
                 ELSE IF RepetitionDraw(ctx.repetition_stack, board.zobrist_key)
                 THEN Becomes(Return(Machine, 0))
                 ELSE \E hit \in {probe_tt(table, board.zobrist_key)},
                         entry \in {ProbedEntry(table, f.ply)} :
                        IF hit /\ TTCutoff(entry, f.depth, f.alpha, f.beta)
                        THEN Becomes(Return(Machine, entry.score))
                        ELSE Becomes(Goto(Machine,
                                 [f EXCEPT !.at = "evaluated",
                                           !.tt_move = IF hit THEN entry.move ELSE NullMove,
                                           !.static_eval =
                                               evaluate(network, board,
                                                        node_accumulator(ctx, f.ply)),
                                           !.alpha_original = f.alpha]))
    /\ UNCHANGED nodeRest

\* negamax, lines 467-471: the null move is made and searched; lines 479-537
\* when it is not tried.
NegamaxNullMove ==
    /\ frames # << >>
    /\ Top.fn = "negamax" /\ Top.at = "evaluated"
    /\ IF TriesNullMove(Top.in_check, Top.allow_null, Top.depth, Top.static_eval, Top.beta)
       THEN \E r \in {make_null_move(board)} :
              Becomes(Call([Machine EXCEPT !.board = r.board,
                                           !.ctx.repetition_stack = Append(@, r.board.zobrist_key)],
                           [Top EXCEPT !.at = "null", !.state = r.state],
                           Frame("negamax", Top.depth - 1 - kNullMoveReduction,
                                 -Top.beta, -Top.beta + 1, FALSE, Top.ply + 1, TRUE)))
       ELSE Becomes(Generate(Machine, Top))
    /\ UNCHANGED <<nodes_total, nodeRest>>

\* negamax, lines 472-477: the null move is undone, its score may cut the
\* node off; lines 479-537 when it does not.
NegamaxNullReturn ==
    /\ frames # << >>
    /\ Top.fn = "negamax" /\ Top.at = "null"
    /\ \E undone \in {[Machine EXCEPT
                          !.board = undo_null_move(board, Top.state),
                          !.ctx.repetition_stack = SubSeq(@, 1, Len(@) - 1)]} :
         IF -ret >= Top.beta THEN Becomes(Return(undone, Top.beta))
         ELSE Becomes(Generate(undone, Top))
    /\ UNCHANGED <<nodes_total, nodeRest>>

\* negamax, lines 531-534: the reduced search has returned; the move is
\* searched again at full depth when it beat alpha.
NegamaxReducedReturn ==
    /\ frames # << >>
    /\ Top.fn = "negamax" /\ Top.at = "reduced"
    /\ IF -ret > Top.alpha
       THEN Becomes(Call(Machine, [Top EXCEPT !.at = "full"],
                         Frame("negamax", Top.depth - 1, -Top.beta, -Top.alpha, TRUE,
                               Top.ply + 1, FALSE)))
       ELSE Becomes(Process(Machine, Top, -ret))
    /\ UNCHANGED <<nodes_total, nodeRest>>

\* negamax, lines 533-576: the search of the move has returned.
NegamaxMoveReturn ==
    /\ frames # << >>
    /\ Top.fn = "negamax" /\ Top.at = "full"
    /\ Becomes(Process(Machine, Top, -ret))
    /\ UNCHANGED <<nodes_total, nodeRest>>

\* quiescence, lines 580-591: from the entry to stand_pat.
QuiescenceEntry ==
    /\ frames # << >>
    /\ Top.fn = "quiescence" /\ Top.at = "entry"
    /\ IF ShouldStop
       THEN Becomes(Abort(Machine)) /\ UNCHANGED nodes_total
       ELSE /\ CountNode
            /\ IF in_check(board, board.side_to_move)
               THEN Becomes(Goto(Machine, Frame("negamax", 1, Top.alpha, Top.beta, FALSE,
                                                Top.ply, Top.via_null)))
               ELSE Becomes(Goto(Machine,
                        [Top EXCEPT !.at = "evaluated",
                                    !.static_eval = evaluate(network, board,
                                                             node_accumulator(ctx, Top.ply))]))
    /\ UNCHANGED nodeRest

\* quiescence, lines 592-617: stand_pat against the window, then the first
\* capture.
QuiescenceStandPat ==
    /\ frames # << >>
    /\ Top.fn = "quiescence" /\ Top.at = "evaluated"
    /\ IF Top.static_eval >= Top.beta THEN Becomes(Return(Machine, Top.beta))
       ELSE Becomes(StartCapture(Machine,
                [Top EXCEPT !.alpha = Max(@, Top.static_eval),
                            !.moves = OrderedCaptures(board, generate_legal_moves(board)),
                            !.move_index = 0]))
    /\ UNCHANGED <<nodes_total, nodeRest>>

\* quiescence, lines 617-629: the search of the capture has returned.
QuiescenceCaptureReturn ==
    /\ frames # << >>
    /\ Top.fn = "quiescence" /\ Top.at = "capture"
    /\ \E undone \in {[Machine EXCEPT
                          !.board = undo_move(board, Top.moves[Top.move_index + 1], Top.state),
                          !.ctx.repetition_stack = SubSeq(@, 1, Len(@) - 1)]} :
         IF -ret >= Top.beta THEN Becomes(Return(undone, Top.beta))
         ELSE Becomes(StartCapture(undone, [Top EXCEPT !.alpha = Max(@, -ret),
                                                       !.move_index = @ + 1]))
    /\ UNCHANGED <<nodes_total, nodeRest>>

NextNegamax ==
    \/ NegamaxEntry
    \/ NegamaxNullMove
    \/ NegamaxNullReturn
    \/ NegamaxReducedReturn
    \/ NegamaxMoveReturn
    \/ QuiescenceEntry
    \/ QuiescenceStandPat
    \/ QuiescenceCaptureReturn

SpecNegamax == InitNegamax /\ [][NextNegamax]_vars
(***************************************************************************)
(* Search::store_tt and Search::probe_tt on the slot of a key              *)
(***************************************************************************)
\* The deepest ply an entry is stored from or probed at.
MaxTTPly == 160

\* The keys stored and probed: two keys that fall in the same slot.
TTKeys ==
    LET k == set_from_fen(NodeFens[1]).zobrist_key IN {k, Xor(k, side_key)}

\* The depths stored: the shallowest and the deepest max_depth.
TTDepths == {1, 128}

\* The scores stored: the bounds of the search, the mate scores next to the
\* threshold on both sides of it, and scores far from a mate.
TTScores ==
    {-kMateValue, -kMateValue + 1, -kMateScoreThreshold - 1, -kMateScoreThreshold,
     -kMateScoreThreshold + 1, -100, 0, 100, kMateScoreThreshold - 1, kMateScoreThreshold,
     kMateScoreThreshold + 1, kMateValue - 1, kMateValue}

TTPlies == {0, 1, MaxTTPly}

TTMoves == {Mv(A1, B1, NoPiece, {}), Mv(H1 - 1, H8 - 1, Queen, {Capture, Promotion})}

\* TTFlag without Empty: the flags negamax and search_root store.
TTBounds == {"Exact", "Alpha", "Beta"}

\* What the slot holds before the store: nothing, or an entry one of the
\* searches left, shallow or deep, of the search in progress or of an earlier
\* one.
TTSlots ==
    {EmptyEntry} \cup
    {[key |-> k, depth |-> d, score |-> 12, move |-> OtherMove, flag |-> "Beta", age |-> g] :
        k \in TTKeys, d \in {1, 64}, g \in {0, 1}}

InitTT ==
    /\ board = EmptyBoard
    /\ stack = << >>
    /\ network = "default"
    /\ acc = ResetAccumulator
    /\ \E e \in TTSlots : table = e
    /\ generation \in {1, 2}
    /\ last = NoCall
    /\ pc = "idle"
    /\ root = [moves |-> << >>, in_check |-> FALSE, kind |-> << >>]
    /\ limits = [max_depth |-> 1, node_limit |-> 0, timed |-> FALSE]
    /\ stop_flag = FALSE
    /\ nodes_total = 0
    /\ time_up = FALSE
    /\ si = InitialFrame
    /\ sr = NoRootFrame
    /\ out = << >>
    /\ hist = NoHistory
    /\ UciIdle
    /\ AuxIdle

ttRest == <<board, stack, acc, network, pc, root, limits, stop_flag, nodes_total, time_up,
            si, sr, out, hist, uciVars, auxVars>>

\* store_tt(key, depth, score, move, flag, ply).  `stored` is the local of
\* line 670, `admitted` the outcome of the test of line 671.
StoreTT ==
    /\ last.op = "none"
    /\ \E key \in TTKeys, d \in TTDepths, s \in TTScores, move \in TTMoves,
          flag \in TTBounds, ply \in TTPlies :
         /\ table' = store_tt(table, key, d, s, move, flag, ply, generation)
         /\ last' = [op |-> "store", key |-> key, depth |-> d, score |-> s, move |-> move,
                     flag |-> flag, ply |-> ply, stored |-> to_tt_score(s, ply),
                     admitted |-> Admits(table, d, generation)]
    /\ UNCHANGED <<generation, ttRest>>

\* probe_tt(key, ply, entry) right after the store, with the key and the ply
\* of the store.
ProbeTT ==
    /\ last.op = "store"
    /\ last' = [op |-> "probe", key |-> last.key, depth |-> last.depth, score |-> last.score,
                move |-> last.move, flag |-> last.flag, ply |-> last.ply,
                stored |-> last.stored, admitted |-> last.admitted,
                hit |-> probe_tt(table, last.key),
                entry |-> ProbedEntry(table, last.ply)]
    /\ UNCHANGED <<table, generation, ttRest>>

NextTT == StoreTT \/ ProbeTT

SpecTT == InitTT /\ [][NextTT]_vars
(***************************************************************************)
(* Search::search run twice on one thread (Threads = 1): search_impl and   *)
(* search_root as above, with search_root_worker calling the negamax of    *)
(* the frames.  The second search runs on the same Search after clear(),   *)
(* or on a Search newly constructed.                                       *)
(***************************************************************************)
\* The deepest max_depth the two searches are given.
MaxRunDepth == 4

\* The positions searched twice: the side to move three pawns down, with
\* three king moves; a position with captures; a root with a move that
\* stalemates.
RunFens ==
    << Fen(<<"8", "/", "8", "/", "8", "/", "8", "/", "8", "/", "8", "/",
             "P", "P", "P", "5", "/", "K", "6", "k">>, "b", <<"-">>, <<"-">>, 0, 1),
       Fen(<<"7", "k", "/", "8", "/", "8", "/", "2", "p", "P", "4", "/",
             "4", "p", "3", "/", "3", "P", "4", "/", "8", "/", "K", "7">>,
           "w", <<"-">>, <<"c", "6">>, 0, 5),
       Fen(<<"7", "k", "/", "8", "/", "5", "Q", "K", "1", "/",
             "8", "/", "8", "/", "8", "/", "8", "/", "8">>, "w", <<"-">>, <<"-">>, 0, 1) >>

\* ThreadContext as the constructor leaves it (ensure_context_capacity,
\* reset_context): accumulators without a neuron, no killer, no history.
FreshContext ==
    [accumulator_stack |-> [p \in StackSlots |-> EmptyAccumulator],
     repetition_stack |-> << >>,
     killer_moves |-> [p \in StackSlots |-> <<NullMove, NullMove>>],
     history |-> << >>]

\* reset_context: the killers, the history and the repetition stack are
\* cleared; accumulator_stack and stack are left as they are.
reset_context(c) ==
    [c EXCEPT !.killer_moves = [p \in StackSlots |-> <<NullMove, NullMove>>],
              !.history = << >>,
              !.repetition_stack = << >>]

\* clear(), lines 116-118: every entry of the table is emptied.
cleared_table(t) == EmptyEntry

InitRun ==
    /\ \E i \in 1 .. Len(RunFens) : board = set_from_fen(RunFens[i])
    /\ stack = << >>
    /\ network \in Networks
    /\ acc = build_accumulator(network, board)
    /\ last = NoCall
    /\ pc = "idle"
    /\ \E ms \in {generate_legal_moves(board)} :
         root = [moves |-> ms, in_check |-> in_check(board, board.side_to_move), kind |-> << >>]
    /\ limits \in [max_depth : 1 .. MaxRunDepth, node_limit : {0, 2}, timed : {FALSE}]
    /\ stop_flag = FALSE
    /\ nodes_total = 0
    /\ time_up = FALSE
    /\ table = EmptyEntry
    /\ generation = 0
    /\ si = InitialFrame
    /\ sr = NoRootFrame
    /\ out = << >>
    /\ hist = NoHistory
    /\ UciIdle
    /\ ctx = FreshContext
    /\ frames = << >>
    /\ ret = 0
    /\ results = << >>
    /\ LoadIdle
    /\ PoolIdle /\ TimeIdle

\* search_impl, lines 137-172: the counters, the context of the thread, the
\* accumulator of the root.
RunBegin ==
    /\ pc = "idle"
    /\ pc' = "loop_top"
    /\ generation' = (generation + 1) % 256
    /\ nodes_total' = 0
    /\ si' = InitialFrame
    /\ ctx' = [ctx EXCEPT !.repetition_stack = <<board.zobrist_key>>,
                          !.killer_moves = [p \in StackSlots |-> <<NullMove, NullMove>>],
                          !.history = << >>,
                          !.accumulator_stack[0] = build_accumulator(network, board)]
    /\ UNCHANGED <<boardVars, uciVars, root, limits, stop_flag, time_up, table, sr, out, hist,
                   frames, ret, results, loadVars, poolVars, timeVars>>

\* search_root_worker, lines 404-418, up to the call of negamax: the
\* repetition stack restarts at the root, the accumulator of the child is
\* derived, the move is made on a copy of the board.
CallWorker(move, alpha, beta) ==
    \E r \in {make_move(board, move)} :
        /\ board' = r.board
        /\ stack' = <<[move |-> move, state |-> r.state, before |-> board, acc |-> acc]>>
        /\ ctx' = [ctx EXCEPT !.repetition_stack = <<board.zobrist_key, r.board.zobrist_key>>,
                              !.accumulator_stack[1] =
                                  update_accumulator(network, board, move,
                                                     ctx.accumulator_stack[0])]
        /\ frames' = <<Frame("negamax", si.depth - 1, -beta, -alpha, TRUE, 1, FALSE)>>

\* search_root_worker, lines 418-421: negamax has returned; the copy of the
\* board is dropped.
WorkerReturned ==
    /\ frames = << >>
    /\ board' = stack[1].before
    /\ stack' = << >>
    /\ ctx' = [ctx EXCEPT !.repetition_stack = SubSeq(@, 1, Len(@) - 1)]

\* search_root, lines 285-329: the probe, the move list, the first move
\* handed to search_root_worker.
RunRoot ==
    /\ pc = "root"
    /\ \E moves \in {SortRoot(root.moves, IF probe_tt(table, board.zobrist_key)
                                          THEN table.move ELSE NullMove)} :
         IF moves = << >>
         THEN /\ si' = [si EXCEPT !.score = NoMoveScore(root.in_check),
                                  !.iteration_best = IF root.in_check THEN @ ELSE NullMove]
              /\ pc' = "after_root"
              /\ UNCHANGED <<sr, board, stack, ctx, frames, ret, hist>>
         ELSE /\ sr' = [NoRootFrame EXCEPT !.moves = moves, !.alpha_original = si.alpha]
              /\ pc' = "first"
              /\ hist' = [hist EXCEPT !.partial = @ \/ ShouldStop]
              /\ UNCHANGED si
              /\ IF ShouldStop
                 THEN ret' = 0 /\ UNCHANGED <<board, stack, ctx, frames>>
                 ELSE CallWorker(moves[1], si.alpha, si.beta) /\ UNCHANGED ret
    /\ UNCHANGED <<acc, network, last, uciVars, root, limits, stop_flag, nodes_total, time_up,
                   table, generation, out, results, loadVars, poolVars, timeVars>>

\* search_root, lines 329-339: the value of the first move.
RunFirstReturn ==
    /\ pc = "first"
    /\ frames = << >>
    /\ IF stack = << >> THEN UNCHANGED <<board, stack, ctx>> ELSE WorkerReturned
    /\ \E value \in {IF stack = << >> THEN 0 ELSE -ret} :
         IF value >= si.beta
         THEN /\ table' = store_tt(table, board.zobrist_key, si.depth, value, sr.moves[1], "Beta", 0,
                                   generation)
              /\ si' = [si EXCEPT !.score = value, !.iteration_best = sr.moves[1]]
              /\ sr' = NoRootFrame
              /\ pc' = "after_root"
         ELSE /\ sr' = [sr EXCEPT !.next_index = 2, !.best_score = value,
                                  !.alpha = Max(si.alpha, value),
                                  !.shared_alpha = Max(si.alpha, value),
                                  !.cutoff = si.alpha >= si.beta]
              /\ si' = [si EXCEPT !.iteration_best = sr.moves[1]]
              /\ pc' = "worker"
              /\ UNCHANGED table
    /\ UNCHANGED <<acc, network, last, uciVars, root, limits, stop_flag, nodes_total, time_up,
                   generation, out, hist, frames, ret, results, loadVars, poolVars, timeVars>>

\* worker_fn, lines 343-352: the next root move is handed to
\* search_root_worker.
RunWorker ==
    /\ pc = "worker"
    /\ IF sr.cutoff \/ ShouldStop
       THEN /\ pc' = "root_end"
            /\ hist' = [hist EXCEPT !.partial = @ \/ (~sr.cutoff /\ sr.next_index <= Len(sr.moves))]
            /\ UNCHANGED <<sr, board, stack, ctx, frames, ret>>
       ELSE IF sr.next_index > Len(sr.moves)
       THEN /\ pc' = "root_end"
            /\ sr' = [sr EXCEPT !.next_index = @ + 1]
            /\ UNCHANGED <<board, stack, ctx, frames, ret, hist>>
       ELSE /\ sr' = [sr EXCEPT !.idx = sr.next_index, !.next_index = @ + 1]
            /\ pc' = "searching"
            /\ CallWorker(sr.moves[sr.next_index], sr.shared_alpha, si.beta)
            /\ UNCHANGED <<ret, hist>>
    /\ UNCHANGED <<acc, network, last, uciVars, root, limits, stop_flag, nodes_total, time_up,
                   table, generation, si, out, results, loadVars, poolVars, timeVars>>

\* worker_fn, line 352: search_root_worker has returned the value of the move.
RunWorkerReturn ==
    /\ pc = "searching"
    /\ WorkerReturned
    /\ sr' = [sr EXCEPT !.value = -ret]
    /\ pc' = "merge"
    /\ UNCHANGED <<acc, network, last, uciVars, root, limits, stop_flag, nodes_total, time_up,
                   table, generation, si, out, hist, frames, ret, results, loadVars, poolVars, timeVars>>

\* The first search has returned.  The second one is run on the same Search
\* after clear() (the table, the generation, reset_context), or on a Search
\* newly constructed.
RunAgain ==
    /\ pc = "returned"
    /\ results = << >>
    /\ results' = <<si.best>>
    /\ pc' = "idle"
    /\ table' = cleared_table(table)
    /\ generation' = 0
    /\ \E fresh \in BOOLEAN : ctx' = IF fresh THEN FreshContext ELSE reset_context(ctx)
    /\ UNCHANGED <<boardVars, uciVars, root, limits, stop_flag, nodes_total, time_up, si, sr,
                   out, hist, frames, ret, loadVars, poolVars, timeVars>>

\* The second search has returned.
RunDone ==
    /\ pc = "returned"
    /\ Len(results) = 1
    /\ results' = Append(results, si.best)
    /\ pc' = "compared"
    /\ UNCHANGED <<boardVars, uciVars, nodeVars, loadVars, poolVars, timeVars, root, limits, stop_flag, nodes_total, time_up,
                   table, generation, si, sr, out, hist>>

NextRun ==
    \/ RunBegin
    \/ LoopTop
    \/ RunRoot
    \/ RunFirstReturn
    \/ RunWorker
    \/ RunWorkerReturn
    \/ WorkerMerge
    \/ RootEnd
    \/ AfterRoot
    \/ Record
    \/ Finish
    \/ RunAgain
    \/ RunDone
    \/ NextNegamax

SpecRun == InitRun /\ [][NextRun]_vars
(***************************************************************************)
(* Board::make_null_move and Board::undo_null_move, on the boards legal    *)
(* moves lead to.  The null move is made when the side to move is not in   *)
(* check (negamax, line 467) and undone next (line 472).                   *)
(***************************************************************************)
\* A legal move is made or undone, outside a null move.
PlayMove ==
    /\ last.op # "make_null"
    /\ MakeMove \/ UndoMove

\* negamax, lines 468-469: the null move is made.  The pieces stay, and the
\* accumulator kept for the board with them.
MakeNullMove ==
    /\ last.op # "make_null"
    /\ ~in_check(board, board.side_to_move)
    /\ \E r \in {make_null_move(board)} :
         /\ board' = r.board
         /\ stack' = Append(stack, [move |-> NullMove, state |-> r.state,
                                    before |-> board, acc |-> acc])
    /\ last' = [op |-> "make_null", flags |-> {}, expect |-> board]
    /\ UNCHANGED <<acc, network, searchVars, uciVars, auxVars>>

\* negamax, line 472: the null move is undone.
UndoNullMove ==
    /\ last.op = "make_null"
    /\ \E top \in {stack[Len(stack)]} :
         /\ board' = undo_null_move(board, top.state)
         /\ last' = [op |-> "undo_null", flags |-> {}, expect |-> top.before]
    /\ stack' = SubSeq(stack, 1, Len(stack) - 1)
    /\ UNCHANGED <<acc, network, searchVars, uciVars, auxVars>>

NextNull == PlayMove \/ MakeNullMove \/ UndoNullMove

SpecNull == Init /\ [][NextNull]_vars
(***************************************************************************)
(* Evaluator::evaluate on accumulators of any contents                     *)
(***************************************************************************)
\* The networks evaluate is called with.
EvalNetworks == Networks \cup {"loud"}

\* The entries an accumulator handed to evaluate holds: those of a board,
\* and large ones of either sign.
AccumulatorEntries == {-500000000, -700, 0, 500000000}

\* The vectors of at most n entries.
Vectors(n) == UNION {[1 .. k -> AccumulatorEntries] : k \in 0 .. n}

\* The accumulators handed to evaluate: the white vector of any size up to
\* one more than the hidden size; the black vector empty, or of the hidden
\* size.
Accumulators ==
    {[white |-> w, black |-> b] :
        w \in Vectors(HiddenSize + 1),
        b \in {<< >>} \cup [1 .. HiddenSize -> AccumulatorEntries]}

\* The boards evaluate is called with: White to move, Black to move.
EvalFens == <<NodeFens[1], NodeFens[3]>>

\* An accumulator as the model keeps it, from the vector of a std::vector:
\* neuron n is entry n + 1.
AccumulatorOf(a) ==
    [white |-> [n \in 0 .. Len(a.white) - 1 |-> a.white[n + 1]],
     black |-> [n \in 0 .. Len(a.black) - 1 |-> a.black[n + 1]]]

InitEval ==
    /\ \E i \in 1 .. Len(EvalFens) : board = set_from_fen(EvalFens[i])
    /\ stack = << >>
    /\ network \in EvalNetworks
    /\ \E a \in Accumulators : acc = AccumulatorOf(a)
    /\ last = NoCall
    /\ SearchIdle
    /\ UciIdle
    /\ AuxIdle

\* evaluate(board, accum) is called and returns.
Evaluate ==
    /\ last.op = "none"
    /\ ret' = evaluate(network, board, acc)
    /\ last' = [NoCall EXCEPT !.op = "evaluate"]
    /\ UNCHANGED <<board, stack, acc, network, searchVars, uciVars, ctx, frames, runVars, loadVars, poolVars, timeVars>>

NextEval == Evaluate

SpecEval == InitEval /\ [][NextEval]_vars
(***************************************************************************)
(* nnue/evaluator.cpp: Evaluator::ensure_network_loaded, over              *)
(* nnue/network.cpp: Network::load_from_file and Network::load_default.    *)
(* A file is the sequence of the fields load_from_file reads, cut where    *)
(* the file ends: magic, version, feature count, then for version 1 the    *)
(* parameters (bias and scale) and the weights, for version 2 the hidden   *)
(* size, the parameters, the hidden biases, the output weights and the     *)
(* weights.                                                                *)
(***************************************************************************)
kMagic == "NNUE"
kVersionV1 == 1
kVersionV2 == 2
kFeatureCount == 768

\* A hidden size ensure_storage cannot allocate.
HugeHiddenSize == 4294967

\* The files whole: version 1, version 2, version 2 with a hidden size of 0,
\* and those with one field wrong: the magic, the version, the feature
\* count, the hidden size.
WholeFiles ==
    { <<kMagic, kVersionV1, kFeatureCount, "parameters", "weights">>,
      <<kMagic, kVersionV2, kFeatureCount, HiddenSize, "parameters", "hidden biases",
        "output weights", "weights">>,
      <<kMagic, kVersionV2, kFeatureCount, 0, "parameters", "hidden biases",
        "output weights", "weights">>,
      <<"NNUF", kVersionV1, kFeatureCount, "parameters", "weights">>,
      <<kMagic, 3, kFeatureCount, "parameters", "weights">>,
      <<kMagic, kVersionV1, kFeatureCount - 1, "parameters", "weights">>,
      <<kMagic, kVersionV2, kFeatureCount + 1, HiddenSize, "parameters", "hidden biases",
        "output weights", "weights">>,
      <<kMagic, kVersionV2, kFeatureCount, HugeHiddenSize, "parameters", "hidden biases",
        "output weights", "weights">> }

\* The files at the path: none that opens, or a file cut after any field.
Files ==
    {[opens |-> FALSE, words |-> << >>]}
        \cup {[opens |-> TRUE, words |-> SubSeq(w, 1, Min(n, Len(w)))] :
                 w \in WholeFiles, n \in 0 .. 8}

\* An exception thrown: its type, what() and the Network left behind.
\* "torn" is a Network whose storage ensure_storage has resized and whose
\* parameters were not all assigned.
Throw(type, what, net) == [threw |-> TRUE, type |-> type, what |-> what, network |-> net]

\* load_from_file has returned.
Loaded == [threw |-> FALSE, type |-> "", what |-> "", network |-> "file"]

\* Network::load_from_file(path) on the Network net.
load_from_file(net, f) ==
    LET w == f.words
        n == Len(w)
    IN  IF ~f.opens
        THEN Throw("std::runtime_error", "Failed to open NNUE network file", net)
        ELSE IF n < 1 \/ w[1] # kMagic
        THEN Throw("std::runtime_error", "Invalid NNUE network file: magic mismatch", net)
        ELSE IF n < 2
        THEN Throw("std::runtime_error", "Failed to read NNUE network version", net)
        ELSE IF n < 3
        THEN Throw("std::runtime_error", "Failed to read NNUE feature count", net)
        ELSE IF w[3] # kFeatureCount
        THEN Throw("std::runtime_error", "Unexpected feature count in NNUE network file", net)
        ELSE IF w[2] = kVersionV1
        THEN IF n < 4
             THEN Throw("std::runtime_error", "Failed to read NNUE network parameters", net)
             ELSE IF n < 5
             THEN Throw("std::runtime_error", "Failed to read NNUE weights from file", net)
             ELSE Loaded
        ELSE IF w[2] # kVersionV2
        THEN Throw("std::runtime_error", "Unsupported NNUE network version", net)
        ELSE IF n < 4
        THEN Throw("std::runtime_error", "Failed to read NNUE hidden size", net)
        ELSE IF n < 5
        THEN Throw("std::runtime_error", "Failed to read NNUE network parameters", net)
        ELSE IF w[4] >= HugeHiddenSize
        THEN Throw("std::bad_alloc", "std::bad_alloc", "torn")
        ELSE IF n < 6
        THEN Throw("std::runtime_error", "Failed to read NNUE hidden biases", "torn")
        ELSE IF n < 7
        THEN Throw("std::runtime_error", "Failed to read NNUE output weights", "torn")
        ELSE IF n < 8
        THEN Throw("std::runtime_error", "Failed to read NNUE weights from file", "torn")
        ELSE Loaded

\* Network::load_default: the Network it leaves, whatever it was.
load_default(net) == "default"

\* The handler of line 37, were it `catch (const std::runtime_error&)`.
Catches_runtime_error(type) == type = "std::runtime_error"

\* ensure_network_loaded, line 37: catch (const std::exception&) takes
\* every exception load_from_file and the vectors throw.
Catches(type) == type \in {"std::runtime_error", "std::bad_alloc", "std::length_error"}

\* The paths set_network_path is given.
NetworkPaths == {"", "nets/chiron.nnue"}

\* The most lines std::cerr is followed for.
MaxErrLines == 2

InitLoad ==
    /\ board = set_from_fen(NodeFens[1])
    /\ stack = << >>
    /\ network = "unloaded"
    /\ acc = EmptyAccumulator
    /\ last = NoCall
    /\ SearchIdle
    /\ UciIdle
    /\ NodeIdle
    /\ results = << >>
    /\ evaluator = [network_path |-> "", network_loaded |-> FALSE]
    /\ file \in Files
    /\ PoolIdle /\ TimeIdle

loadRest == <<board, stack, searchVars, uci_pc, line, search_thread, threads_alive, searching,
              exit_code, tally, nodeVars, runVars, file, poolVars, timeVars>>

\* Evaluator::set_network_path
SetNetworkPath ==
    /\ \E path \in NetworkPaths :
         evaluator' = [network_path |-> path, network_loaded |-> FALSE]
    /\ last' = [NoCall EXCEPT !.op = "set_network_path"]
    /\ UNCHANGED <<network, acc, err, loadRest>>

\* Evaluator::ensure_network_loaded.  last keeps whether load_from_file has
\* thrown, the lines on std::cerr before the call, and whether the exception
\* has left the function.
EnsureNetworkLoaded ==
    /\ Len(err) < MaxErrLines
    /\ \E r \in {IF evaluator.network_loaded THEN Throw("", "", network)
                 ELSE IF evaluator.network_path # "" THEN load_from_file(network, file)
                 ELSE [Loaded EXCEPT !.network = load_default(network)]} :
         /\ last' = [op |-> "ensure_network_loaded", flags |-> {}, expect |-> EmptyBoard,
                     tried |-> ~evaluator.network_loaded /\ evaluator.network_path # "",
                     threw |-> ~evaluator.network_loaded /\ r.threw,
                     lines |-> Len(err),
                     propagated |-> ~evaluator.network_loaded /\ r.threw /\ ~Catches(r.type)]
         /\ IF evaluator.network_loaded
            THEN UNCHANGED <<network, err, evaluator>>
            ELSE IF ~r.threw
            THEN /\ network' = r.network
                 /\ evaluator' = [evaluator EXCEPT !.network_loaded = TRUE]
                 /\ UNCHANGED err
            ELSE IF Catches(r.type)
            THEN /\ err' = Append(err, <<"info string", "NNUE fallback: ", r.what>>)
                 /\ network' = load_default(r.network)
                 /\ evaluator' = [evaluator EXCEPT !.network_loaded = TRUE]
            ELSE /\ network' = r.network
                 /\ UNCHANGED <<err, evaluator>>
    /\ UNCHANGED <<acc, loadRest>>

\* evaluate, lines 125-145, on the accumulator build_accumulator gives the
\* board: both call ensure_network_loaded first, which has returned.
EvaluateLoaded ==
    /\ last.op = "ensure_network_loaded"
    /\ ~last.propagated
    /\ network \in Networks
    /\ acc' = build_accumulator(network, board)
    /\ ret' = evaluate(network, board, acc')
    /\ last' = [NoCall EXCEPT !.op = "evaluate"]
    /\ UNCHANGED <<board, stack, network, searchVars, uciVars, ctx, frames, runVars, loadVars, poolVars, timeVars>>

NextLoad == SetNetworkPath \/ EnsureNetworkLoaded \/ EvaluateLoaded

SpecLoad == InitLoad /\ [][NextLoad]_vars
(***************************************************************************)
(* perft.cpp: perft(board, depth), call by call, on the positions of       *)
(* tests/test_perft.cpp.                                                   *)
(***************************************************************************)
\* The deepest perft run.
MaxPerftDepth == 3

\* The positions of PerftTest: the start position, and the position of
\* PerftTest.KiwipeteDepths.
PerftFens ==
    << kStartFEN,
       Fen(<<"r", "n", "b", "q", "1", "k", "1", "r", "/",
             "p", "p", "p", "p", "1", "p", "p", "p", "/",
             "5", "n", "2", "/", "4", "p", "3", "/",
             "1", "b", "B", "1", "P", "3", "/", "5", "N", "2", "/",
             "P", "P", "P", "P", "1", "P", "P", "P", "/",
             "R", "N", "B", "Q", "1", "R", "K", "1">>, "w", <<"-">>, <<"-">>, 0, 1) >>

\* The counts PerftTest expects of them, by depth.
PerftCounts ==
    << <<20, 400, 8902, 197281, 4865609, 119060324>>,
       <<29, 956, 28900, 951029>> >>

\* The frame of a call of perft at its first line.
PerftFrame(depth) ==
    [fn |-> "perft", at |-> "entry", depth |-> depth, moves |-> << >>, move_index |-> 0,
     nodes |-> 0, state |-> NoState]

InitPerft ==
    /\ \E i \in 1 .. Len(PerftFens), depth \in 1 .. MaxPerftDepth :
         /\ board = set_from_fen(PerftFens[i])
         /\ last = [op |-> "perft", flags |-> {}, expect |-> board, position |-> i,
                    depth |-> depth]
         /\ frames = <<PerftFrame(depth)>>
    /\ stack = << >>
    /\ network = "default"
    /\ acc = EmptyAccumulator
    /\ SearchIdle
    /\ UciIdle
    /\ ctx = [accumulator_stack |-> << >>, repetition_stack |-> << >>,
              killer_moves |-> << >>, history |-> << >>]
    /\ ret = 0
    /\ results = << >>
    /\ LoadIdle
    /\ PoolIdle /\ TimeIdle

perftRest == <<stack, acc, network, last, searchVars, uciVars, ctx, runVars, loadVars, poolVars, timeVars>>

\* perft, lines 6-13: depth 0 returns 1; otherwise the legal moves are
\* generated.
PerftEntry ==
    /\ frames # << >>
    /\ Top.fn = "perft" /\ Top.at = "entry"
    /\ IF Top.depth = 0
       THEN /\ ret' = 1
            /\ frames' = SubSeq(frames, 1, Len(frames) - 1)
       ELSE /\ frames' = [frames EXCEPT ![Len(frames)] =
                             [Top EXCEPT !.at = "loop",
                                         !.moves = generate_legal_moves(board)]]
            /\ UNCHANGED ret
    /\ UNCHANGED <<board, perftRest>>

\* perft, lines 14-17 and 20: the next move is made and perft called on the
\* board after it; after the last move the sum is returned.
PerftMove ==
    /\ frames # << >>
    /\ Top.fn = "perft" /\ Top.at = "loop"
    /\ IF Top.move_index >= Len(Top.moves)
       THEN /\ ret' = Top.nodes
            /\ frames' = SubSeq(frames, 1, Len(frames) - 1)
            /\ UNCHANGED board
       ELSE \E r \in {make_move(board, Top.moves[Top.move_index + 1])} :
              /\ board' = r.board
              /\ frames' = Append([frames EXCEPT ![Len(frames)] =
                                      [Top EXCEPT !.at = "called", !.state = r.state]],
                                  PerftFrame(Top.depth - 1))
              /\ UNCHANGED ret
    /\ UNCHANGED perftRest

\* perft, lines 17-18: the count of the move is added, the move undone.
PerftReturn ==
    /\ frames # << >>
    /\ Top.fn = "perft" /\ Top.at = "called"
    /\ board' = undo_move(board, Top.moves[Top.move_index + 1], Top.state)
    /\ frames' = [frames EXCEPT ![Len(frames)] =
                     [Top EXCEPT !.at = "loop", !.nodes = @ + ret, !.move_index = @ + 1]]
    /\ UNCHANGED <<ret, perftRest>>

NextPerft == PerftEntry \/ PerftMove \/ PerftReturn

SpecPerft == InitPerft /\ [][NextPerft]_vars
(***************************************************************************)
(* Board::make_move called with a move that no generator produced: its     *)
(* from square may be empty, its capture may have no target.               *)
(***************************************************************************)
\* The squares such a move names: of the first two ranks and of the middle
\* of the board, occupied in some of StartPositions and empty in others.
ContractSquares == {A1, E1, 12, 27, 28, 35, 36, 51}

\* The moves make_move is called with.
ContractMoves ==
    {m \in {Mv(from, to, NoPiece, flags) :
                from \in ContractSquares, to \in ContractSquares,
                flags \in {{}, {Capture}}} : m.from # m.to}

\* make_move(move, state) is called once and returns or throws.  last keeps
\* the move, the board before the call and whether the call has thrown.
MakeMoveCalled ==
    /\ last.op = "none"
    /\ \E move \in ContractMoves :
         \E r \in {make_move(board, move)} :
             /\ board' = r.board
             /\ last' = [op |-> "make_move", flags |-> move.flags, expect |-> board,
                         move |-> move, threw |-> r.threw]
    /\ UNCHANGED <<stack, acc, network, searchVars, uciVars, auxVars>>

NextContract == MakeMoveCalled

SpecContract == Init /\ [][NextContract]_vars
(***************************************************************************)
(* Search::search_root with thread_count_ threads: the calling thread      *)
(* searches the first move, spawns the workers, runs worker_fn(0) itself   *)
(* and joins                                                               *)
(***************************************************************************)
\* The largest thread_count_.
MaxThreads == 3

\* No thread holds best_mutex.
NoThread == -1

\* The root searched: the king on a1 with its three moves.
PoolFens == <<RootFens[4]>>

\* The windows search_impl hands to search_root.
PoolWindows == {<<-18, 18>>, <<-kInfinity, kInfinity>>}

\* Lines 373-377: the thread spawned for i runs worker_fn(i), the calling
\* thread runs worker_fn(0); worker_fn(i) works on contexts_[i] (line 342).
context_index_shared(thread) == 0
context_index(thread) == thread

\* std::atomic::fetch_add(1), line 347: the value before, the counter after.
fetch_add_without_add(counter) == [value |-> counter, counter |-> counter]
fetch_add(counter) == [value |-> counter, counter |-> counter + 1]

\* std::lock_guard on best_mutex, line 356: the thread goes on when no
\* thread holds the mutex.
lockable_always(mutex) == TRUE
lockable(mutex) == mutex = NoThread

\* The locals of worker_fn and, for the call of search_root_worker in
\* progress, its clone of the board.
NoWorker ==
    [pc |-> "unborn", idx |-> 0, local_alpha |-> 0, value |-> 0, better |-> FALSE,
     current_alpha |-> 0, local_board |-> EmptyBoard]

InitPool ==
    /\ \E i \in 1 .. Len(PoolFens) : board = set_from_fen(PoolFens[i])
    /\ stack = << >>
    /\ network = "default"
    /\ acc = build_accumulator(network, board)
    /\ last = NoCall
    /\ pc = "root"
    /\ root = RootInfo(board)
    /\ limits = [max_depth |-> 1, node_limit |-> 0, timed |-> FALSE]
    /\ stop_flag = FALSE
    /\ nodes_total = 0
    /\ time_up = FALSE
    /\ table = EmptyEntry
    /\ generation = 1
    /\ \E window \in PoolWindows :
         si = [InitialFrame EXCEPT !.alpha = window[1], !.beta = window[2]]
    /\ sr = NoRootFrame
    /\ out = << >>
    /\ hist = NoHistory
    /\ UciIdle
    /\ NodeIdle
    /\ results = << >>
    /\ LoadIdle
    /\ TimeIdle
    /\ \E n \in 1 .. MaxThreads :
         /\ pool = [thread_count |-> n, best_mutex |-> NoThread, spawned |-> {}, joined |-> {},
                    handed |-> [i \in 1 .. Len(root.moves) |-> 0], searched |-> {},
                    merged |-> {}, users |-> [c \in 0 .. n - 1 |-> {}]]
         /\ workers = [t \in 0 .. n - 1 |-> NoWorker]

poolRest == <<stack, acc, network, last, root, limits, time_up, generation, out, hist,
              uciVars, nodeVars, runVars, loadVars, timeVars>>

\* search_root_worker, lines 399-422, for the move: the value returned, the
\* nodes counted, the clone the move is made on, and what negamax leaves in
\* the root's slot.  When should_stop() holds nothing is touched.
SearchRootWorker(move) ==
    IF ShouldStop
    THEN {[value |-> 0, stopped |-> TRUE, nodes_total |-> nodes_total, table |-> table,
           local_board |-> EmptyBoard]}
    ELSE {[value |-> value, stopped |-> FALSE, nodes_total |-> Min(nodes_total + 1, MaxNodes),
           table |-> entry, local_board |-> make_move(board, move).board] :
             value \in NegamaxValues(root, move),
             entry \in {table, store_tt(table, Xor(board.zobrist_key, side_key), 1, 0,
                                        OtherMove, "Exact", 1, generation)}}

\* The pool after the thread has run search_root_worker on contexts_[c] for
\* the move of the index.
Searched(thread, c, idx, o) ==
    [pool EXCEPT
        !.searched = @ \cup {[thread |-> thread, idx |-> idx, value |-> o.value,
                              spawned |-> pool.spawned]},
        !.users[c] = IF o.stopped THEN @ ELSE @ \cup {thread}]

\* search_root, lines 285-339: the probe, the move list, the first move on
\* the calling thread with its own context.
PoolRoot ==
    /\ pc = "root"
    /\ \E moves \in {SortRoot(root.moves, IF probe_tt(table, board.zobrist_key)
                                          THEN table.move ELSE NullMove)} :
         IF moves = << >>
         THEN /\ si' = [si EXCEPT !.score = NoMoveScore(root.in_check),
                                  !.iteration_best = IF root.in_check THEN @ ELSE NullMove]
              /\ pc' = "after_root"
              /\ UNCHANGED <<sr, nodes_total, table, pool, workers>>
         ELSE \E o \in SearchRootWorker(moves[1]) :
                /\ nodes_total' = o.nodes_total
                /\ pool' = Searched(0, 0, 1, o)
                /\ workers' = [workers EXCEPT ![0].local_board = o.local_board]
                /\ IF o.value >= si.beta
                   THEN /\ table' = store_tt(o.table, board.zobrist_key, si.depth, o.value,
                                             moves[1], "Beta", 0, generation)
                        /\ si' = [si EXCEPT !.score = o.value, !.iteration_best = moves[1]]
                        /\ pc' = "after_root"
                        /\ UNCHANGED sr
                   ELSE /\ table' = o.table
                        /\ sr' = [moves |-> moves, next_index |-> 2, best_score |-> o.value,
                                  alpha |-> Max(si.alpha, o.value),
                                  shared_alpha |-> Max(si.alpha, o.value),
                                  alpha_original |-> si.alpha,
                                  cutoff |-> si.alpha >= si.beta, idx |-> 0, value |-> 0]
                        /\ si' = [si EXCEPT !.iteration_best = moves[1]]
                        /\ pc' = "spawn"
    /\ UNCHANGED <<board, stop_flag, poolRest>>

\* search_root, lines 373-375: the next worker thread is started, or, all
\* started, the calling thread enters worker_fn(0) (line 377).
PoolSpawn ==
    /\ pc = "spawn"
    /\ \E i \in {Cardinality(pool.spawned) + 1} :
         IF i < pool.thread_count
         THEN /\ pool' = [pool EXCEPT !.spawned = @ \cup {i}]
              /\ workers' = [workers EXCEPT ![i].pc = "check"]
              /\ UNCHANGED pc
         ELSE /\ workers' = [workers EXCEPT ![0].pc = "check"]
              /\ pc' = "worker_fn"
              /\ UNCHANGED pool
    /\ UNCHANGED <<board, stop_flag, nodes_total, table, si, sr, poolRest>>

\* What a step of worker_fn leaves alone.
workerRest == <<board, pc, stop_flag, si, poolRest>>

\* worker_fn, lines 344-346: the cutoff and should_stop().
WorkerCheck(t) ==
    /\ workers[t].pc = "check"
    /\ workers' = [workers EXCEPT ![t].pc = IF sr.cutoff \/ ShouldStop THEN "done" ELSE "fetch"]
    /\ UNCHANGED <<sr, pool, nodes_total, table, workerRest>>

\* worker_fn, lines 347-350: the next index is taken.
WorkerFetch(t) ==
    /\ workers[t].pc = "fetch"
    /\ \E f \in {fetch_add(sr.next_index)} :
         /\ sr' = [sr EXCEPT !.next_index = f.counter]
         /\ IF f.value > Len(sr.moves)
            THEN /\ workers' = [workers EXCEPT ![t].pc = "done"]
                 /\ UNCHANGED pool
            ELSE /\ workers' = [workers EXCEPT ![t].pc = "load", ![t].idx = f.value]
                 /\ pool' = [pool EXCEPT !.handed[f.value] = @ + 1]
    /\ UNCHANGED <<nodes_total, table, workerRest>>

\* worker_fn, line 351: shared_alpha is read.
WorkerLoad(t) ==
    /\ workers[t].pc = "load"
    /\ workers' = [workers EXCEPT ![t].pc = "search", ![t].local_alpha = sr.shared_alpha]
    /\ UNCHANGED <<sr, pool, nodes_total, table, workerRest>>

\* worker_fn, line 352: the move of the index is searched on the context of
\* the thread.
WorkerSearch(t) ==
    /\ workers[t].pc = "search"
    /\ \E o \in SearchRootWorker(sr.moves[workers[t].idx]) :
         /\ nodes_total' = o.nodes_total
         /\ table' = o.table
         /\ pool' = Searched(t, context_index(t), workers[t].idx, o)
         /\ workers' = [workers EXCEPT ![t].pc = "signal", ![t].value = o.value,
                                       ![t].local_board = o.local_board]
    /\ UNCHANGED <<sr, workerRest>>

\* worker_fn, lines 353-355: the value is dropped when the stop flag is set.
WorkerSignal(t) ==
    /\ workers[t].pc = "signal"
    /\ workers' = [workers EXCEPT ![t].pc = IF stop_flag THEN "done" ELSE "lock"]
    /\ UNCHANGED <<sr, pool, nodes_total, table, workerRest>>

\* worker_fn, line 356: best_mutex is taken.
WorkerLock(t) ==
    /\ workers[t].pc = "lock"
    /\ lockable(pool.best_mutex)
    /\ pool' = [pool EXCEPT !.best_mutex = t]
    /\ workers' = [workers EXCEPT ![t].pc = "compare"]
    /\ UNCHANGED <<sr, nodes_total, table, workerRest>>

\* worker_fn, line 357: the value against best_score.
WorkerCompare(t) ==
    /\ workers[t].pc = "compare"
    /\ workers' = [workers EXCEPT ![t].pc = "assign",
                                  ![t].better = workers[t].value > sr.best_score]
    /\ UNCHANGED <<sr, pool, nodes_total, table, workerRest>>

\* worker_fn, lines 358-361: best_score and best_move are written,
\* shared_alpha is read.
WorkerAssign(t) ==
    /\ workers[t].pc = "assign"
    /\ sr' = [sr EXCEPT !.best_score = IF workers[t].better THEN workers[t].value ELSE @]
    /\ si' = [si EXCEPT !.iteration_best =
                 IF workers[t].better THEN sr.moves[workers[t].idx] ELSE @]
    /\ workers' = [workers EXCEPT ![t].pc = "store", ![t].current_alpha = sr.shared_alpha]
    /\ UNCHANGED <<pool, nodes_total, table, board, pc, stop_flag, poolRest>>

\* worker_fn, lines 362-369: shared_alpha and cutoff are written, the mutex
\* is given back.
WorkerStore(t) ==
    /\ workers[t].pc = "store"
    /\ sr' = [sr EXCEPT
           !.shared_alpha = IF workers[t].value > workers[t].current_alpha
                            THEN workers[t].value ELSE @,
           !.cutoff = IF workers[t].value >= si.beta THEN TRUE ELSE @]
    /\ pool' = [pool EXCEPT
           !.best_mutex = NoThread,
           !.merged = @ \cup {[thread |-> t, idx |-> workers[t].idx,
                               value |-> workers[t].value]}]
    /\ workers' = [workers EXCEPT ![t].pc = "check"]
    /\ UNCHANGED <<nodes_total, table, workerRest>>

\* One step of worker_fn on a thread that runs.
WorkerStep ==
    \E t \in DOMAIN workers :
        \/ WorkerCheck(t)
        \/ WorkerFetch(t)
        \/ WorkerLoad(t)
        \/ WorkerSearch(t)
        \/ WorkerSignal(t)
        \/ WorkerLock(t)
        \/ WorkerCompare(t)
        \/ WorkerAssign(t)
        \/ WorkerStore(t)

\* search_root, line 377: worker_fn(0) has returned on the calling thread.
PoolWorkerReturn ==
    /\ pc = "worker_fn"
    /\ workers[0].pc = "done"
    /\ pc' = "join"
    /\ UNCHANGED <<board, stop_flag, nodes_total, table, si, sr, pool, workers, poolRest>>

\* search_root, lines 379-383: the workers are joined in the order they were
\* started; join returns when the thread has left worker_fn.
PoolJoin ==
    /\ pc = "join"
    /\ \E i \in {Cardinality(pool.joined) + 1} :
         IF i < pool.thread_count
         THEN /\ workers[i].pc = "done"
              /\ pool' = [pool EXCEPT !.joined = @ \cup {i}]
              /\ UNCHANGED pc
         ELSE /\ pc' = "root_end"
              /\ UNCHANGED pool
    /\ UNCHANGED <<board, stop_flag, nodes_total, table, si, sr, workers, poolRest>>

\* search_root, lines 385-396: the root's entry is stored, the score returned.
PoolRootEnd ==
    /\ pc = "root_end"
    /\ \E best_score \in {IF sr.best_score = -kInfinity THEN sr.alpha ELSE sr.best_score} :
         /\ table' = store_tt(table, board.zobrist_key, si.depth, best_score, si.iteration_best,
                              RootFlag(best_score, sr.alpha_original, si.beta), 0, generation)
         /\ si' = [si EXCEPT !.score = best_score]
    /\ pc' = "after_root"
    /\ UNCHANGED <<board, stop_flag, nodes_total, sr, pool, workers, poolRest>>

\* UCI::stop_search, line 275, on the command thread.
PoolSetStop ==
    /\ pc # "after_root"
    /\ ~stop_flag
    /\ stop_flag' = TRUE
    /\ UNCHANGED <<board, pc, nodes_total, table, si, sr, pool, workers, poolRest>>

NextPool ==
    \/ PoolRoot
    \/ PoolSpawn
    \/ WorkerStep
    \/ PoolWorkerReturn
    \/ PoolJoin
    \/ PoolRootEnd
    \/ PoolSetStop

SpecPool == InitPool /\ [][NextPool]_vars
(***************************************************************************)
(* Search::store_tt and Search::probe_tt called by several search threads  *)
(* on one slot of the table, under tt_mutex_                               *)
(***************************************************************************)
\* The search threads that call store_tt and probe_tt.
TTThreads == 3

\* The members of a TTEntry in the order of their declaration, the order
\* store_tt writes them and a copy reads them (search.h lines 100-105).
TTFields == <<"key", "depth", "score", "move", "flag", "age">>

\* The keys asked for: the key of a position and the key of the same
\* position with the other side to move.  Both fall in the slot.
SharedKeys ==
    {set_from_fen(RootFens[4]).zobrist_key,
     Xor(set_from_fen(RootFens[4]).zobrist_key, side_key)}

\* The arguments of the store_tt calls: two entries of the first key, of
\* depth 1 and 2, and one of the second key, no two of which agree in a
\* member other than the key.
StoreCalls ==
    LET k == set_from_fen(RootFens[4]).zobrist_key
    IN  {[key |-> k, depth |-> 1, score |-> 25, move |-> Mv(A1, A1 + 8, NoPiece, {}),
          flag |-> "Exact", ply |-> 0],
         [key |-> k, depth |-> 2, score |-> -30, move |-> Mv(A1, B1, NoPiece, {}),
          flag |-> "Alpha", ply |-> 1],
         [key |-> Xor(k, side_key), depth |-> 3, score |-> kMateValue - 3, move |-> OtherMove,
          flag |-> "Beta", ply |-> 2]}

\* The entry one store_tt call of these arguments writes (lines 672-677).
WrittenEntry(call, gen) ==
    store_tt(EmptyEntry, call.key, call.depth, call.score, call.move, call.flag, call.ply, gen)

\* std::unique_lock on a std::shared_mutex: no thread holds it in either way.
unique_lockable(mutex) == mutex.writer = NoThread /\ mutex.readers = {}

\* std::shared_lock on a std::shared_mutex: no thread holds it exclusively.
shared_lockable_always(mutex) == TRUE
shared_lockable(mutex) == mutex.writer = NoThread

\* A thread between two calls.
IdleThread ==
    [pc |-> "idle", call |-> [key |-> {}, depth |-> 0, score |-> 0, move |-> NullMove,
                              flag |-> "Empty", ply |-> 0],
     next |-> 0, entry |-> EmptyEntry, hit |-> FALSE]

InitShared ==
    /\ board = set_from_fen(RootFens[4])
    /\ stack = << >>
    /\ network = "default"
    /\ acc = build_accumulator(network, board)
    /\ last = NoCall
    /\ SearchIdle
    /\ UciIdle
    /\ NodeIdle
    /\ results = << >>
    /\ LoadIdle
    /\ TimeIdle
    /\ pool = [tt_mutex |-> [writer |-> NoThread, readers |-> {}]]
    /\ workers = [t \in 1 .. TTThreads |-> IdleThread]

sharedRest == <<boardVars, pc, root, limits, stop_flag, nodes_total, time_up, generation, si, sr,
                out, hist, uciVars, nodeVars, runVars, loadVars, timeVars>>

\* A search thread calls store_tt.
StoreCall(t) ==
    /\ workers[t].pc = "idle"
    /\ \E call \in StoreCalls :
         workers' = [workers EXCEPT ![t] = [IdleThread EXCEPT !.pc = "store_lock", !.call = call]]
    /\ UNCHANGED <<table, pool, sharedRest>>

\* store_tt, line 668.
StoreLock(t) ==
    /\ workers[t].pc = "store_lock"
    /\ unique_lockable(pool.tt_mutex)
    /\ pool' = [pool EXCEPT !.tt_mutex.writer = t]
    /\ workers' = [workers EXCEPT ![t].pc = "store_test"]
    /\ UNCHANGED <<table, sharedRest>>

\* store_tt, lines 669-671: whether the slot takes the entry.
StoreTest(t) ==
    /\ workers[t].pc = "store_test"
    /\ workers' = [workers EXCEPT
           ![t].pc = IF Admits(table, workers[t].call.depth, generation)
                     THEN "store_write" ELSE "store_unlock",
           ![t].next = 1]
    /\ UNCHANGED <<table, pool, sharedRest>>

\* store_tt, lines 672-677: one member of the slot is written.
StoreWrite(t) ==
    /\ workers[t].pc = "store_write"
    /\ \E field \in {TTFields[workers[t].next]} :
         table' = [table EXCEPT ![field] = WrittenEntry(workers[t].call, generation)[field]]
    /\ workers' = [workers EXCEPT
           ![t].next = @ + 1,
           ![t].pc = IF workers[t].next = Len(TTFields) THEN "store_unlock" ELSE @]
    /\ UNCHANGED <<pool, sharedRest>>

\* store_tt, line 679: the lock is given back, the call returns.
StoreUnlock(t) ==
    /\ workers[t].pc = "store_unlock"
    /\ pool' = [pool EXCEPT !.tt_mutex.writer = NoThread]
    /\ workers' = [workers EXCEPT ![t] = IdleThread]
    /\ UNCHANGED <<table, sharedRest>>

\* A search thread calls probe_tt.
ProbeCall(t) ==
    /\ workers[t].pc = "idle"
    /\ \E key \in SharedKeys, ply \in {0, 1} :
         workers' = [workers EXCEPT
             ![t] = [IdleThread EXCEPT !.pc = "probe_lock", !.call.key = key, !.call.ply = ply]]
    /\ UNCHANGED <<table, pool, sharedRest>>

\* probe_tt, line 657.
ProbeLock(t) ==
    /\ workers[t].pc = "probe_lock"
    /\ shared_lockable(pool.tt_mutex)
    /\ pool' = [pool EXCEPT !.tt_mutex.readers = @ \cup {t}]
    /\ workers' = [workers EXCEPT ![t].pc = "probe_test"]
    /\ UNCHANGED <<table, sharedRest>>

\* probe_tt, lines 658-659: the flag and the key of the slot.
ProbeTest(t) ==
    /\ workers[t].pc = "probe_test"
    /\ workers' = [workers EXCEPT
           ![t].pc = IF probe_tt(table, workers[t].call.key) THEN "probe_copy" ELSE "probe_unlock",
           ![t].next = 1]
    /\ UNCHANGED <<table, pool, sharedRest>>

\* probe_tt, line 660: one member of the slot is copied.
ProbeCopy(t) ==
    /\ workers[t].pc = "probe_copy"
    /\ \E field \in {TTFields[workers[t].next]} :
         workers' = [workers EXCEPT
             ![t].entry = [@ EXCEPT ![field] = table[field]],
             ![t].next = @ + 1,
             ![t].hit = workers[t].next = Len(TTFields),
             ![t].pc = IF workers[t].next = Len(TTFields) THEN "probe_unlock" ELSE @]
    /\ UNCHANGED <<table, pool, sharedRest>>

\* probe_tt, lines 661-664: the score is brought to the ply of the probe,
\* the lock is given back, the call returns.
ProbeUnlock(t) ==
    /\ workers[t].pc = "probe_unlock"
    /\ pool' = [pool EXCEPT !.tt_mutex.readers = @ \ {t}]
    /\ workers' = [workers EXCEPT
           ![t].pc = "probed",
           ![t].entry = IF workers[t].hit THEN ProbedEntry(@, workers[t].call.ply) ELSE @]
    /\ UNCHANGED <<table, sharedRest>>

\* The caller of probe_tt goes on.
ProbeReturn(t) ==
    /\ workers[t].pc = "probed"
    /\ workers' = [workers EXCEPT ![t] = IdleThread]
    /\ UNCHANGED <<table, pool, sharedRest>>

NextShared ==
    \E t \in DOMAIN workers :
        \/ StoreCall(t)
        \/ StoreLock(t)
        \/ StoreTest(t)
        \/ StoreWrite(t)
        \/ StoreUnlock(t)
        \/ ProbeCall(t)
        \/ ProbeLock(t)
        \/ ProbeTest(t)
        \/ ProbeCopy(t)
        \/ ProbeUnlock(t)
        \/ ProbeReturn(t)

SpecShared == InitShared /\ [][NextShared]_vars
(***************************************************************************)
(* UCI::handle_setoption with what it calls in Search and in the global    *)
(* Evaluator, on the command thread while the search thread may run        *)
(***************************************************************************)
\* The `setoption` lines given: a table size, a number of threads, each also
\* with a value that is no number, and a network file.
OptionLines ==
    << <<"setoption", "name", "Hash", "value", <<"3", "2">>>>,
       <<"setoption", "name", "Hash", "value", <<"x">>>>,
       <<"setoption", "name", "Threads", "value", <<"2">>>>,
       <<"setoption", "name", "Threads", "value", <<"x">>>>,
       <<"setoption", "name", "EvalNetwork", "value", "nets/chiron.nnue">> >>

\* The file at the path of the EvalNetwork line: none that opens, or a whole
\* file of version 2.
OptionFiles ==
    {[opens |-> FALSE, words |-> << >>],
     [opens |-> TRUE,
      words |-> <<kMagic, kVersionV2, kFeatureCount, HiddenSize, "parameters", "hidden biases",
                  "output weights", "weights">>]}

\* UCI::UCI, and main before uci.loop(): one context, the default network
\* loaded.
InitOption ==
    /\ board = set_from_fen(kStartFEN)
    /\ stack = << >>
    /\ network = "default"
    /\ acc = build_accumulator(network, board)
    /\ last = NoCall
    /\ SearchIdle
    /\ UciIdle
    /\ NodeIdle
    /\ results = << >>
    /\ evaluator = [network_path |-> "", network_loaded |-> TRUE]
    /\ file \in OptionFiles
    /\ PoolIdle /\ TimeIdle

\* Search::set_threads, lines 106-113: thread_count_ and the size of
\* contexts_.
set_threads(threads) == [thread_count |-> Max(1, threads)]

\* set_global_network_path and global_evaluator (evaluation.cpp lines
\* 26-43): set_network_path, then ensure_network_loaded, which reads the
\* file into network_ and falls back to the default network when
\* load_from_file throws an exception it catches.
set_global_network(path, net, f) ==
    LET r == IF path # "" THEN load_from_file(net, f)
             ELSE [Loaded EXCEPT !.network = load_default(net)]
    IN  [evaluator |-> [network_path |-> path, network_loaded |-> ~r.threw \/ Catches(r.type)],
         network |-> IF ~r.threw THEN r.network
                     ELSE IF Catches(r.type) THEN load_default(r.network)
                     ELSE r.network,
         errs |-> IF r.threw /\ Catches(r.type)
                  THEN << <<"info string", "NNUE fallback: ", r.what>> >>
                  ELSE << >>,
         threw |-> r.threw /\ ~Catches(r.type)]

\* loop, lines 66-67, and handle_setoption, lines 172-230.  Neither stops the
\* search nor looks at searching_.
HandleSetoption ==
    /\ CanRead
    /\ \E i \in 1 .. Len(OptionLines) :
       \E name \in {OptionLines[i][3]}, value \in {OptionLines[i][5]} :
         /\ line' = OptionLines[i]
         /\ IF name \in {"Hash", "Threads"} /\ stoi(value).threw
            THEN /\ out' = Append(out, <<"info string", "Failed to set option">>)
                 /\ tally' = [tally EXCEPT !.lines = @ + 1, !.handled = "setoption",
                                           !.errors = @ + 1]
                 /\ UNCHANGED <<table, generation, pool, ctx, evaluator, network, err>>
            ELSE /\ tally' = [tally EXCEPT !.lines = @ + 1, !.handled = "setoption"]
                 /\ IF name = "Hash"
                    THEN /\ table' = EmptyEntry
                         /\ generation' = 0
                         /\ UNCHANGED <<out, pool, ctx, evaluator, network, err>>
                    ELSE IF name = "Threads"
                    THEN /\ pool' = set_threads(stoi(value).value)
                         /\ ctx' = reset_context(ctx)
                         /\ UNCHANGED <<out, table, generation, evaluator, network, err>>
                    ELSE \E g \in {set_global_network(value, network, file)} :
                           /\ evaluator' = g.evaluator
                           /\ network' = g.network
                           /\ err' = err \o g.errs
                           /\ out' = Append(out, <<"info string", "nnue network set to">>)
                           /\ UNCHANGED <<table, generation, pool, ctx>>
    /\ UNCHANGED <<board, stack, acc, last, pc, root, limits, stop_flag, nodes_total, time_up,
                   si, sr, hist, uci_pc, search_thread, threads_alive, searching, exit_code,
                   frames, ret, results, file, workers, timeVars>>

NextOption ==
    \/ Answer
    \/ HandleSetoption
    \/ BeginStopSearch
    \/ BeginGo
    \/ EndOfInput
    \/ NewGame
    \/ Position
    \/ StartSearch
    \/ Stopped
    \/ Leave
    \/ Unwind
    \/ SearchThread

SpecOption == InitOption /\ [][NextOption]_vars
(***************************************************************************)
(* Search::store_tt on a table of several slots, and the generation        *)
(* search_impl counts                                                      *)
(***************************************************************************)
\* table_.size(): the table_size the Search is constructed with.
TableSize == 2

\* The 64-bit number of a Zobrist token.  The numbers of the program are
\* drawn at random; here each token has a number of its own.
ZobristNumber(token) == token + 1

\* a ^ b on two numbers that are not negative.
RECURSIVE BitXor(_, _)
BitXor(a, b) ==
    IF a = 0 THEN b
    ELSE IF b = 0 THEN a
    ELSE ((a + b) % 2) + 2 * BitXor(a \div 2, b \div 2)

\* The number a key stands for: the exclusive or of the numbers of its
\* tokens.
RECURSIVE KeyValue(_)
KeyValue(key) ==
    IF key = {} THEN 0
    ELSE LET t == CHOOSE x \in key : TRUE
         IN  BitXor(ZobristNumber(t), KeyValue(key \ {t}))

\* entry_for_key, lines 681-685: the index of the slot of the key.
entry_index(key, size) == KeyValue(key) % size

\* store_tt on the table: the table after the call.
store_in_table(t, key, d, s, move, flag, ply, gen) ==
    [t EXCEPT ![entry_index(key, TableSize)] = store_tt(@, key, d, s, move, flag, ply, gen)]

\* The keys stored: the key of a position, the key of the same position
\* with the other side to move, and the one with an en-passant file.
SlotKeys ==
    LET k == set_from_fen(NodeFens[1]).zobrist_key
    IN  {k, Xor(k, side_key), Xor(k, en_passant_key(1))}

\* The depths stored, below, at and above the depths the slots hold.
SlotDepths == {1, 2, 3}

\* What a slot holds before the stores: nothing, or an entry of depth 2 of
\* the search in progress or of the one before.
InitialSlots ==
    {EmptyEntry} \cup
    {[key |-> k, depth |-> 2, score |-> 12, move |-> OtherMove, flag |-> "Beta", age |-> g] :
        k \in SlotKeys, g \in {0, 255}}

InitSlots ==
    /\ board = EmptyBoard
    /\ stack = << >>
    /\ network = "default"
    /\ acc = ResetAccumulator
    /\ table \in [0 .. TableSize - 1 -> InitialSlots]
    /\ \A i \in 0 .. TableSize - 1 :
         table[i].flag # "Empty" => entry_index(table[i].key, TableSize) = i
    /\ generation \in {0, 255}
    /\ last = NoCall
    /\ pc = "idle"
    /\ root = [moves |-> << >>, in_check |-> FALSE, kind |-> << >>]
    /\ limits = [max_depth |-> 1, node_limit |-> 0, timed |-> FALSE]
    /\ stop_flag = FALSE
    /\ nodes_total = 0
    /\ time_up = FALSE
    /\ si = InitialFrame
    /\ sr = NoRootFrame
    /\ out = << >>
    /\ hist = NoHistory
    /\ UciIdle
    /\ AuxIdle

\* store_tt(key, depth, score, move, flag, ply): last keeps the arguments,
\* the generation and the table before the call.
StoreInTable ==
    /\ last.op # "store"
    /\ \E key \in SlotKeys, d \in SlotDepths, s \in {-30, kMateValue - 2},
          flag \in {"Exact", "Alpha"} :
         /\ table' = store_in_table(table, key, d, s, OtherMove, flag, 1, generation)
         /\ last' = [op |-> "store", key |-> key, depth |-> d, score |-> s, move |-> OtherMove,
                     flag |-> flag, ply |-> 1, generation |-> generation, before |-> table]
    /\ UNCHANGED <<generation, ttRest>>

\* The generations followed: the last one before the counter rolls over and
\* the two after it.
Generations == {255, 0, 1}

\* search_impl, line 149: a search begins, the generation is counted
\* modulo 256.
NextGeneration ==
    /\ generation' = (generation + 1) % 256
    /\ generation' \in Generations
    /\ last' = [NoCall EXCEPT !.op = "search"]
    /\ UNCHANGED <<table, ttRest>>

NextSlots == StoreInTable \/ NextGeneration

SpecSlots == InitSlots /\ [][NextSlots]_vars
(***************************************************************************)
(* Search::compute_time_budget and the time test of Search::should_stop    *)
(* in a search that is given a move time, a clock, or neither              *)
(***************************************************************************)
\* compute_time_budget, lines 703-719, in milliseconds.  time_left and
\* increment are the clock of the side to move, allocation is what
\* time_manager_.allocate_time_ms answers for them.
compute_time_budget(lim, allocation) ==
    IF lim.move_time_ms >= 0 THEN lim.move_time_ms
    ELSE IF lim.infinite THEN 0
    ELSE IF lim.time_left <= 0 /\ lim.increment <= 0 THEN 0
    ELSE Max(allocation, 0)

\* search_impl, line 146: time_limit_.
time_limit_of(lim, allocation) ==
    IF lim.infinite THEN 0 ELSE compute_time_budget(lim, allocation)

\* The limits of the searches: no move time or one of 0, 1 or 40
\* milliseconds, no clock or 100 milliseconds on it, infinite or not.
ClockLimits ==
    [max_depth : 1 .. MaxDepth, node_limit : {0}, move_time_ms : {-1, 0, 1, 40},
     time_left : {0, 100}, increment : {0}, infinite : BOOLEAN]

\* What allocate_time_ms answers for the clock of 100 milliseconds: the
\* minimum of TimeManagerConfig, min_time_ms.
ClockAllocation == 10

\* The search as search_impl sets out: time_limit_ is computed, start_time_
\* is now.  timed says that time_limit_ is positive; time_up, that the time
\* elapsed has reached time_limit_, holds from the start for a time_limit_
\* of 0.
InitClock ==
    /\ \E i \in {4, 5} : board = set_from_fen(RootFens[i])
    /\ stack = << >>
    /\ network = "default"
    /\ acc = build_accumulator(network, board)
    /\ last = NoCall
    /\ pc = "idle"
    /\ root = RootInfo(board)
    /\ \E lim \in ClockLimits :
       \E time_limit \in {time_limit_of(lim, ClockAllocation)} :
         /\ limits = [max_depth |-> lim.max_depth, node_limit |-> lim.node_limit,
                      timed |-> time_limit > 0, move_time_ms |-> lim.move_time_ms,
                      infinite |-> lim.infinite, time_limit |-> time_limit]
         /\ time_up = (time_limit = 0)
    /\ stop_flag = FALSE
    /\ nodes_total = 0
    /\ table = EmptyEntry
    /\ generation = 0
    /\ si = InitialFrame
    /\ sr = NoRootFrame
    /\ out = << >>
    /\ hist = NoHistory
    /\ UciIdle
    /\ AuxIdle

SpecClock == InitClock /\ [][NextSearch]_vars
(***************************************************************************)
(* The plies of a search: which entries of stack, killer_moves and         *)
(* accumulator_stack negamax and quiescence index, and the sizes           *)
(* ensure_context_capacity has given these vectors.  The position enters   *)
(* by what decides the plies: whether the side to move is in check, and    *)
(* how many captures the line can still hold.                              *)
(***************************************************************************)
\* Captures a line of the search can hold.
MaxCaptures == 5

\* No ply above this one is followed further.
PlyCap == 136

\* limits.max_depth as the callers give it.
PlyMaxDepths == {1, 64, 200}

\* search_impl, line 150: std::clamp(limits.max_depth, 1, 128).
clamped_depth(max_depth) == Max(1, Min(max_depth, 128))

\* ensure_context_capacity, line 749: the size required for a depth.
required_capacity(depth) == Max(depth + 5, 64)

\* ensure_context_capacity, lines 750-762: a vector below the size required
\* is resized to it, a larger one is left as it is.
ensure_context_capacity(sizes, depth) ==
    [v \in DOMAIN sizes |-> Max(sizes[v], required_capacity(depth))]

\* The context the constructor and set_threads leave: the three vectors
\* empty, then ensure_context_capacity(ctx, 128).
ConstructedContext ==
    ensure_context_capacity([accumulator_stack |-> 0, stack |-> 0, killer_moves |-> 0], 128)

\* A call of negamax or quiescence: its depth and ply, allow_null, whether
\* the side to move is in check, the captures the line can still hold, and
\* the entries the call has indexed so far.
PlyFrame(fn, depth, ply, allow_null, checked, captures_left) ==
    [fn |-> fn, at |-> "entry", depth |-> depth, ply |-> ply, allow_null |-> allow_null,
     in_check |-> checked, captures_left |-> captures_left, used |-> {}]

InitPly ==
    /\ board = EmptyBoard
    /\ stack = << >>
    /\ network = "default"
    /\ acc = EmptyAccumulator
    /\ last = NoCall
    /\ SearchIdle
    /\ UciIdle
    /\ results = << >> /\ LoadIdle /\ PoolIdle /\ TimeIdle
    /\ ctx = ConstructedContext
    /\ frames = << >>
    /\ ret = 0

plyRest == <<boardVars, root, stop_flag, nodes_total, time_up, table, generation, si, sr,
             out, hist, uciVars, ret, runVars, loadVars, poolVars, timeVars>>

\* search_impl, lines 135-157: the limits of the call, and the capacity of
\* the context for the depth clamped.
PlyBegin ==
    /\ pc = "idle"
    /\ \E max_depth \in PlyMaxDepths :
         /\ limits' = [limits EXCEPT !.max_depth = max_depth]
         /\ ctx' = ensure_context_capacity(ctx, clamped_depth(max_depth))
    /\ pc' = "loop_top"
    /\ UNCHANGED <<plyRest, frames>>

\* One iteration of the loop of search_impl, of a depth from 1 to the depth
\* clamped, for one root move: search_root_worker, lines 399-418, writes
\* accumulator_stack[1] from accumulator_stack[0] and calls negamax with
\* depth - 1 at ply 1.
PlyRoot ==
    /\ pc = "loop_top"
    /\ \E depth \in 1 .. clamped_depth(limits.max_depth), checked \in BOOLEAN,
          captures \in {0, MaxCaptures} :
         frames' = <<[PlyFrame("negamax", depth - 1, 1, TRUE, checked, captures)
                         EXCEPT !.used = {<<"accumulator_stack", 0>>,
                                          <<"accumulator_stack", 1>>}]>>
    /\ pc' = "root"
    /\ UNCHANGED <<plyRest, limits, ctx>>

PlyTop == frames[1]

\* negamax, lines 425-464: stack[ply] is written; at depth 0 the call goes
\* on in quiescence at the same ply; otherwise, a draw and a cutoff of the
\* table aside (PlyReturn), accumulator_stack[ply] is evaluated.
PlyNegamaxEntry ==
    /\ pc = "root" /\ PlyTop.fn = "negamax" /\ PlyTop.at = "entry"
    /\ frames' = IF PlyTop.depth <= 0
                 THEN <<[PlyFrame("quiescence", 0, PlyTop.ply, FALSE, PlyTop.in_check,
                                  PlyTop.captures_left)
                            EXCEPT !.used = {<<"stack", PlyTop.ply>>}]>>
                 ELSE <<[PlyTop EXCEPT !.at = "moves",
                                       !.used = {<<"stack", PlyTop.ply>>,
                                                 <<"accumulator_stack", PlyTop.ply>>}]>>
    /\ UNCHANGED <<plyRest, pc, limits, ctx>>

\* negamax, lines 466-471: the null move, searched at ply + 1.
PlyNullMove ==
    /\ pc = "root" /\ PlyTop.fn = "negamax" /\ PlyTop.at = "moves"
    /\ ~PlyTop.in_check /\ PlyTop.allow_null /\ PlyTop.depth >= 3
    /\ PlyTop.ply < PlyCap
    /\ frames' = <<PlyFrame("negamax", PlyTop.depth - 1 - kNullMoveReduction, PlyTop.ply + 1,
                            FALSE, FALSE, PlyTop.captures_left)>>
    /\ UNCHANGED <<plyRest, pc, limits, ctx>>

\* negamax, lines 497-536: a move of the loop.  killer_moves[ply] is read
\* for the order, accumulator_stack[ply + 1] is written, and the move is
\* searched at ply + 1 with depth - 1, or first with the depth reduced when
\* it is a late quiet move.
PlyMove ==
    /\ pc = "root" /\ PlyTop.fn = "negamax" /\ PlyTop.at = "moves"
    /\ PlyTop.ply < PlyCap
    /\ \E capture \in {c \in BOOLEAN : c => PlyTop.captures_left > 0},
          gives_check \in BOOLEAN, move_index \in {0, 3, 7} :
       \E can_reduce \in {~capture /\ ~gives_check /\ ~PlyTop.in_check
                               /\ PlyTop.depth >= 3 /\ move_index >= 3} :
       \E reduction \in {1 + (IF move_index > 6 THEN 1 ELSE 0)} :
       \E new_depth \in IF can_reduce
                         THEN {Max(1, PlyTop.depth - 1 - reduction), PlyTop.depth - 1}
                         ELSE {PlyTop.depth - 1} :
         /\ frames' = <<[PlyFrame("negamax", new_depth, PlyTop.ply + 1, TRUE, gives_check,
                                  PlyTop.captures_left - (IF capture THEN 1 ELSE 0))
                            EXCEPT !.used = {<<"killer_moves", PlyTop.ply>>,
                                             <<"accumulator_stack", PlyTop.ply>>,
                                             <<"accumulator_stack", PlyTop.ply + 1>>}]>>
    /\ UNCHANGED <<plyRest, pc, limits, ctx>>

\* quiescence, lines 587-591: in check the call goes on in negamax with
\* depth 1 at the same ply; otherwise accumulator_stack[ply] is evaluated.
PlyQuiescenceEntry ==
    /\ pc = "root" /\ PlyTop.fn = "quiescence" /\ PlyTop.at = "entry"
    /\ frames' = IF PlyTop.in_check
                 THEN <<PlyFrame("negamax", 1, PlyTop.ply, FALSE, TRUE, PlyTop.captures_left)>>
                 ELSE <<[PlyTop EXCEPT !.at = "moves",
                                       !.used = {<<"accumulator_stack", PlyTop.ply>>}]>>
    /\ UNCHANGED <<plyRest, pc, limits, ctx>>

\* quiescence, lines 612-617: a capture of the loop.
\* accumulator_stack[ply + 1] is written and the capture is searched by
\* quiescence at ply + 1.
PlyCapture ==
    /\ pc = "root" /\ PlyTop.fn = "quiescence" /\ PlyTop.at = "moves"
    /\ PlyTop.captures_left > 0
    /\ PlyTop.ply < PlyCap
    /\ \E gives_check \in BOOLEAN :
         frames' = <<[PlyFrame("quiescence", 0, PlyTop.ply + 1, FALSE, gives_check,
                               PlyTop.captures_left - 1)
                         EXCEPT !.used = {<<"accumulator_stack", PlyTop.ply>>,
                                          <<"accumulator_stack", PlyTop.ply + 1>>}]>>
    /\ UNCHANGED <<plyRest, pc, limits, ctx>>

\* The calls return, search_root and the iteration end.
PlyReturn ==
    /\ pc = "root"
    /\ frames' = << >>
    /\ pc' = "loop_top"
    /\ UNCHANGED <<plyRest, limits, ctx>>

\* search_impl returns.
PlyEnd ==
    /\ pc = "loop_top"
    /\ pc' = "idle"
    /\ UNCHANGED <<plyRest, limits, ctx, frames>>

NextPly ==
    \/ PlyBegin
    \/ PlyRoot
    \/ PlyNegamaxEntry
    \/ PlyNullMove
    \/ PlyMove
    \/ PlyQuiescenceEntry
    \/ PlyCapture
    \/ PlyReturn
    \/ PlyEnd

SpecPly == InitPly /\ [][NextPly]_vars
(***************************************************************************)
(* MoveGenerator::generate_legal_moves(board, moves): the loop that makes  *)
(* every pseudo-legal move on the caller's board, tests the king and       *)
(* undoes the move                                                         *)
(***************************************************************************)
\* The moves played between the calls, at most.
MaxLegalPly == 1

\* The positions of the calls: the start position; both sides with their
\* castling rights; a rook pinned on the king's file; an en-passant capture
\* that would open the fifth rank on the king; a king in check that holds
\* both castling rights; a king whose way to the king side is attacked.
LegalFens ==
    << kStartFEN,
       StartPositions[2],
       Fen(<<"4", "r", "2", "k", "/", "8", "/", "8", "/", "8", "/", "8", "/", "8", "/",
             "4", "R", "3", "/", "4", "K", "3">>, "w", <<"-">>, <<"-">>, 0, 1),
       Fen(<<"8", "/", "8", "/", "8", "/", "K", "2", "p", "P", "2", "r", "/",
             "8", "/", "8", "/", "8", "/", "7", "k">>, "w", <<"-">>, <<"d", "6">>, 0, 1),
       Fen(<<"r", "3", "k", "2", "r", "/", "8", "/", "8", "/", "8", "/",
             "4", "R", "3", "/", "8", "/", "8", "/", "4", "K", "3">>,
           "b", <<"k", "q">>, <<"-">>, 0, 1),
       Fen(<<"r", "3", "k", "2", "r", "/", "8", "/", "8", "/", "8", "/",
             "5", "R", "2", "/", "8", "/", "8", "/", "4", "K", "3">>,
           "b", <<"k", "q">>, <<"-">>, 0, 1) >>

\* generate_legal_moves, line 213: the colour whose king is tested after
\* make_move, given the board the move has left.
KingTested_side_to_move(b) == b.side_to_move
KingTested(b) == opposite_color(b.side_to_move)

InitLegal ==
    /\ \E i \in 1 .. Len(LegalFens) : board = set_from_fen(LegalFens[i])
    /\ stack = << >>
    /\ network = "default"
    /\ acc = EmptyAccumulator
    /\ last = NoCall
    /\ SearchIdle
    /\ UciIdle
    /\ AuxIdle

legalRest == <<acc, network, searchVars, uciVars, ctx, runVars, loadVars, poolVars, timeVars>>

\* generate_legal_moves, lines 202-207: the pseudo-legal moves are
\* generated, moves is cleared.
LegalBegin ==
    /\ frames = << >>
    /\ last.op \in {"none", "make"}
    /\ frames' = <<[fn |-> "generate_legal_moves", pseudo |-> generate_pseudo_legal_moves(board),
                    index |-> 1, moves |-> << >>]>>
    /\ last' = [op |-> "generate", flags |-> {}, expect |-> board]
    /\ UNCHANGED <<board, stack, ret, legalRest>>

\* Lines 209-216, one turn of the loop: the move is made on the board, the
\* king is tested, the move is kept or not, the move is undone.
LegalTry ==
    /\ frames # << >>
    /\ frames[1].index <= Len(frames[1].pseudo)
    /\ \E move \in {frames[1].pseudo[frames[1].index]} :
       \E r \in {make_move(board, move)} :
         /\ ~r.threw
         /\ board' = undo_move(r.board, move, r.state)
         /\ frames' = <<[frames[1] EXCEPT
                           !.index = @ + 1,
                           !.moves = IF ~in_check(r.board, KingTested(r.board))
                                     THEN Append(@, move) ELSE @]>>
    /\ UNCHANGED <<stack, last, ret, legalRest>>

\* Line 217: the loop is over, the call returns with moves filled.
LegalReturn ==
    /\ frames # << >>
    /\ frames[1].index > Len(frames[1].pseudo)
    /\ ret' = frames[1].moves
    /\ frames' = << >>
    /\ last' = [last EXCEPT !.op = "generated"]
    /\ UNCHANGED <<board, stack, legalRest>>

\* The caller plays one of the moves returned.
LegalPlay ==
    /\ last.op = "generated"
    /\ Len(stack) < MaxLegalPly
    /\ \E move \in Range(ret) :
         \E r \in {make_move(board, move)} :
             /\ board' = r.board
             /\ stack' = Append(stack, [move |-> move, state |-> r.state, before |-> board,
                                        acc |-> acc])
             /\ last' = [op |-> "make", flags |-> move.flags, expect |-> board]
    /\ UNCHANGED <<frames, ret, legalRest>>

NextLegal ==
    \/ LegalBegin
    \/ LegalTry
    \/ LegalReturn
    \/ LegalPlay

SpecLegal == InitLegal /\ [][NextLegal]_vars
(***************************************************************************)
(* TimeManager::allocate_time_ms called as compute_time_budget calls it:   *)
(* with the clock and the increment of the side to move, the number of     *)
(* the move and moves_to_go                                                *)
(***************************************************************************)
\* The configurations of the calls: the one declared, and one set through
\* the options (10 percent of the clock, the whole increment, 1 to 500 ms).
TimeConfigs ==
    { DefaultTimeConfig,
      [base_allocation |-> Fraction(1, 10), increment_bonus |-> Whole(1),
       min_time_ms |-> 1, max_time_ms |-> 500] }

\* The arguments of the calls.
RemainingTimes == {0, 1, 250, 1000, 9000, 30000, 60000}
Increments == {0, 100, 6000}
MoveNumbers == {1, 19, 20, 60, 61}
MovesToGo == {-1, 0, 1, 5, 29, 30, 31, 40}

InitTime ==
    /\ board = EmptyBoard
    /\ stack = << >>
    /\ network = "default"
    /\ acc = EmptyAccumulator
    /\ \E remaining_ms \in RemainingTimes, increment_ms \in Increments,
          move_number \in MoveNumbers, moves_to_go \in MovesToGo :
         last = [op |-> "none", flags |-> {}, expect |-> EmptyBoard,
                 remaining_ms |-> remaining_ms, increment_ms |-> increment_ms,
                 move_number |-> move_number, moves_to_go |-> moves_to_go]
    /\ SearchIdle
    /\ UciIdle
    /\ NodeIdle /\ results = << >> /\ LoadIdle /\ PoolIdle
    /\ time_config \in TimeConfigs

\* allocate_time_ms is called and returns.
AllocateTime ==
    /\ last.op = "none"
    /\ ret' = allocate_time_ms(time_config, last.remaining_ms, last.increment_ms,
                               last.move_number, last.moves_to_go)
    /\ last' = [last EXCEPT !.op = "allocate_time_ms"]
    /\ UNCHANGED <<board, stack, acc, network, searchVars, uciVars, ctx, frames, runVars,
                   loadVars, poolVars, timeVars>>

NextTime == AllocateTime

SpecTime == InitTime /\ [][NextTime]_vars
(***************************************************************************)
(* UCI::send_info: the info line printed for a SearchResult                *)
(***************************************************************************)
\* uci.cpp, line 17.
kMateThreshold == kMateValue - 512

\* send_info, lines 296-301: the number printed after `score mate`, rounded
\* up from the half, and as the code computes it with the division of ints.
mate_moves_rounded_up(score) ==
    LET mate == (kMateValue - Abs(score) + 2) \div 2
    IN  IF score < 0 THEN -mate ELSE mate
mate_moves(score) ==
    LET mate == (kMateValue - Abs(score) + 1) \div 2
    IN  IF score < 0 THEN -mate ELSE mate

\* What operator<< writes between two blanks: a word, an int in decimal,
\* a move as move_to_string gives it.
Word(w) == [word |-> w]
Number(n) == [number |-> n]
MoveWord(m) == [move |-> move_to_string(m)]

\* send_info, lines 289-325: the line written.
send_info(result) ==
    <<Word("info"), Word("depth"), Number(result.depth)>> \o
    (IF result.seldepth > 0 THEN <<Word("seldepth"), Number(result.seldepth)>> ELSE << >>) \o
    (IF Abs(result.score) >= kMateThreshold
     THEN <<Word("score"), Word("mate"), Number(mate_moves(result.score))>>
     ELSE <<Word("score"), Word("cp"), Number(result.score)>>) \o
    <<Word("time"), Number(Max(result.elapsed, 0)), Word("nodes"), Number(result.nodes)>> \o
    (IF Max(result.elapsed, 0) > 0
     THEN <<Word("nps"), Number((result.nodes * 1000) \div Max(result.elapsed, 0))>>
     ELSE << >>) \o
    (IF result.pv # << >>
     THEN <<Word("pv")>> \o [i \in 1 .. Len(result.pv) |-> MoveWord(result.pv[i])]
     ELSE << >>)

\* The scores of the results: the mate scores of both signs down to the
\* threshold and a few below it, and centipawn scores.
InfoScores ==
    (-kMateValue .. -(kMateThreshold - 8)) \cup {-519, -1, 0, 1, 57}
        \cup ((kMateThreshold - 8) .. kMateValue)

\* The results send_info is called with.
InfoResults ==
    [depth : {1}, seldepth : {0, 3}, score : InfoScores, elapsed : {0, 7}, nodes : {100},
     pv : {<< >>, <<Mv(12, 28, NoPiece, {DoublePush})>>}]

InitInfo ==
    /\ board = EmptyBoard
    /\ stack = << >>
    /\ network = "default"
    /\ acc = EmptyAccumulator
    /\ \E result \in InfoResults :
         last = [op |-> "none", flags |-> {}, expect |-> EmptyBoard, result |-> result]
    /\ SearchIdle
    /\ UciIdle
    /\ AuxIdle

\* send_info(result) is called and prints its line.
SendInfo ==
    /\ last.op = "none"
    /\ out' = Append(out, send_info(last.result))
    /\ last' = [last EXCEPT !.op = "send_info"]
    /\ UNCHANGED <<board, stack, acc, network, pc, root, limits, stop_flag, nodes_total,
                   time_up, table, generation, si, sr, hist, uciVars, auxVars>>

NextInfo == SendInfo

SpecInfo == InitInfo /\ [][NextInfo]_vars
(***************************************************************************)
(* UCI::handle_setoption for the options of the time manager, and the      *)
(* allocation made with the configuration they leave                       *)
(***************************************************************************)
\* The `setoption` lines given: think times below, between and above the
\* defaults of 10 and 2000, percents, and a value that is no number.
TimeOptionLines ==
    << <<"setoption", "name", "Minimum Think Time", "value", <<"0">>>>,
       <<"setoption", "name", "Minimum Think Time", "value", <<"5", "0">>>>,
       <<"setoption", "name", "Minimum Think Time", "value", <<"5", "0", "0", "0">>>>,
       <<"setoption", "name", "Maximum Think Time", "value", <<"5">>>>,
       <<"setoption", "name", "Maximum Think Time", "value", <<"3", "0", "0", "0">>>>,
       <<"setoption", "name", "Maximum Think Time", "value", <<"x">>>>,
       <<"setoption", "name", "Base Time Percent", "value", <<"1", "0">>>>,
       <<"setoption", "name", "Increment Percent", "value", <<"9", "0", "0">>>> >>

\* std::stod for the values given, which are whole numbers.
stod(token) == stoi(token)

\* std::clamp(v, lo, hi) for ints.
clamp(v, lo, hi) == IF v < lo THEN lo ELSE IF hi < v THEN hi ELSE v

\* handle_setoption, lines 202-215: the configuration after an option of
\* the time manager with a value that is a number.
time_option(config, name, value) ==
    IF name = "Base Time Percent"
    THEN [config EXCEPT !.base_allocation = Fraction(clamp(stod(value).value, 0, 100), 100)]
    ELSE IF name = "Increment Percent"
    THEN [config EXCEPT !.increment_bonus = Fraction(clamp(stod(value).value, 0, 500), 100)]
    ELSE IF name = "Minimum Think Time"
    THEN [config EXCEPT !.min_time_ms = Max(1, stoi(value).value)]
    ELSE [config EXCEPT !.max_time_ms = Max(config.min_time_ms, stoi(value).value)]

\* loop, lines 66-67, and handle_setoption, lines 172-230, for these lines.
HandleTimeOption ==
    /\ CanRead
    /\ \E i \in 1 .. Len(TimeOptionLines) :
       \E name \in {TimeOptionLines[i][3]}, value \in {TimeOptionLines[i][5]} :
         /\ line' = TimeOptionLines[i]
         /\ IF stoi(value).threw
            THEN /\ out' = Append(out, <<"info string", "Failed to set option">>)
                 /\ tally' = [tally EXCEPT !.lines = @ + 1, !.handled = "setoption",
                                           !.errors = @ + 1]
                 /\ UNCHANGED time_config
            ELSE /\ tally' = [tally EXCEPT !.lines = @ + 1, !.handled = "setoption"]
                 /\ time_config' = time_option(time_config, name, value)
                 /\ UNCHANGED out
    /\ last' = NoCall
    /\ UNCHANGED <<board, stack, acc, network, pc, root, limits, stop_flag, nodes_total, time_up,
                   table, generation, si, sr, hist, uci_pc, search_thread, threads_alive,
                   searching, exit_code, err, nodeVars, runVars, loadVars, poolVars>>

\* std::clamp with hi < lo is undefined: the libraries that test v < lo
\* first give lo or hi, those that test hi < v first give hi or lo.
FractionClampHighFirst(v, lo, hi) ==
    IF ~FractionLeq(v, hi) THEN hi
    ELSE IF ~FractionLeq(lo, v) THEN lo
    ELSE v

\* The values allocate_time_ms can return for a configuration.
allocations(config, remaining_ms, increment_ms, move_number, moves_to_go) ==
    IF remaining_ms <= 0 \/ config.min_time_ms <= config.max_time_ms
    THEN {allocate_time_ms(config, remaining_ms, increment_ms, move_number, moves_to_go)}
    ELSE {Truncated(c) :
            c \in {FractionClamp(capped_allocation(config, remaining_ms, increment_ms,
                                                   move_number, moves_to_go),
                                 Whole(config.min_time_ms), Whole(config.max_time_ms)),
                   FractionClampHighFirst(capped_allocation(config, remaining_ms, increment_ms,
                                                            move_number, moves_to_go),
                                          Whole(config.min_time_ms),
                                          Whole(config.max_time_ms))}}

\* The clocks of the searches started between the lines.
OptionClocks == {0, 1000, 60000}

\* start_search and compute_time_budget: the configuration goes to the
\* TimeManager and a search asks it for the time of a move.
AllocateConfigured ==
    /\ uci_pc = "getline"
    /\ last.op = "none"
    /\ \E remaining_ms \in OptionClocks :
         /\ ret' \in allocations(time_config, remaining_ms, 0, 30, 0)
         /\ last' = [NoCall EXCEPT !.op = "allocate_time_ms"]
    /\ UNCHANGED <<board, stack, acc, network, searchVars, uciVars, ctx, frames, runVars,
                   loadVars, poolVars, timeVars>>

NextTimeOption == HandleTimeOption \/ AllocateConfigured

SpecTimeOption == Init /\ [][NextTimeOption]_vars
(***************************************************************************)
(* Properties of the board and of the accumulator                          *)
(***************************************************************************)
\* C1: make_move(m) followed by undo_move(m) leaves every field of the Board
\* (piece bitboards, occupancies, mailbox, side to move, castling rights,
\* en-passant square, halfmove clock, fullmove number, Zobrist key) as it was
\* before the make_move, whatever the kind of the legal move m.
C1_MakeUndoRoundTrip == last.op = "undo" => board = last.expect

\* A capture-promotion has been made and undone.
C1_Witness ==
    /\ last.op = "undo"
    /\ Promotion \in last.flags
    /\ Capture \in last.flags

\* The twelve piece bitboards of b, as (color, piece type) pairs.
PieceSets == Colors \X PieceTypes

Coherent(b) ==
    /\ \A c \in Colors : b.occupancies[c] = UNION {b.pieces[c][p] : p \in PieceTypes}
    /\ b.occupancy_all = b.occupancies[White] \cup b.occupancies[Black]
    /\ \A x \in PieceSets : \A y \in PieceSets :
           x # y => b.pieces[x[1]][x[2]] \cap b.pieces[y[1]][y[2]] = {}
    /\ \A sq \in Squares :
           /\ \A x \in PieceSets :
                  b.mailbox[sq] = encode_piece(x[1], x[2]) <=> sq \in b.pieces[x[1]][x[2]]
           /\ b.mailbox[sq] = kEmptySquare <=>
                  \A x \in PieceSets : sq \notin b.pieces[x[1]][x[2]]

\* C2: after any sequence of legal make_move / undo_move calls the board is
\* coherent: each occupancy is the union of its color's piece bitboards,
\* occupancy_all is the union of the two, the twelve piece bitboards are
\* pairwise disjoint, and the mailbox names (c, p) on exactly the squares of
\* pieces[c][p] and is empty on exactly the squares of no bitboard.
C2_BoardCoherent == Coherent(board)

\* A castle has been made: two pieces of one color moved in one call.
C2_Witness ==
    /\ last.op = "make"
    /\ last.flags \cap {KingCastle, QueenCastle} # {}

\* The key set_from_fen builds for a board (lines 141, 147-165): the piece
\* keys of the pieces present, the key of the castling rights, the key of
\* the en-passant file if a square is set, the side key if Black is to move.
RebuildKey(b) ==
    LET k0 == UNION {UNION {piece_key(x[1], x[2], sq) : sq \in b.pieces[x[1]][x[2]]}
                        : x \in PieceSets}
        k1 == IF b.side_to_move = Black THEN Xor(k0, side_key) ELSE k0
        k2 == Xor(k1, castling_key(b.castling_rights))
    IN  IF b.en_passant_square # -1
        THEN Xor(k2, en_passant_key(file_of(b.en_passant_square)))
        ELSE k2

\* C3: after any sequence of make_move calls with legal moves, the Zobrist
\* key kept incrementally equals the key rebuilt from the board: the XOR of
\* the piece keys of the pieces present, of the key of the castling rights,
\* of the en-passant file key if an en-passant square is set and of the side
\* key if Black is to move.
C3_HashAgrees == board.zobrist_key = RebuildKey(board)

\* A double push has been made on a board that had lost a castling right:
\* the en-passant key and a changed castling key are both in the hash.
C3_Witness ==
    /\ last.op = "make"
    /\ DoublePush \in last.flags
    /\ board.en_passant_square # -1
    /\ board.castling_rights # {kWhiteKingCastle, kWhiteQueenCastle,
                                 kBlackKingCastle, kBlackQueenCastle}

\* C10: update_accumulator(B, m, build_accumulator(B)) equals, neuron by
\* neuron in the white and in the black vector, build_accumulator of the
\* board make_move(m) gives, for quiet moves, captures, en-passant captures,
\* castles, promotions and capture-promotions.
C10_AccumulatorAgrees == acc = build_accumulator(network, board)

\* An en-passant capture has been made under a network whose weights differ
\* from square to square.
C10_Witness ==
    /\ last.op = "make"
    /\ EnPassant \in last.flags
    /\ network = "file"


\* C20: with the side to move not in check, make_null_move followed by
\* undo_null_move leaves every field of the Board as it was before the null
\* move: pieces, occupancies, mailbox, side to move, castling rights,
\* en-passant square, halfmove clock, fullmove number, Zobrist key.
C20_NullMoveRoundTrip == last.op = "undo_null" => board = last.expect

\* A null move made by Black and undone on a board with an en-passant square
\* and castling rights: the null move had cleared the square, counted a
\* halfmove and a full move, and changed the key.
C20_Witness ==
    /\ last.op = "undo_null"
    /\ board = last.expect
    /\ board.side_to_move = Black
    /\ board.en_passant_square # -1
    /\ board.castling_rights # {}
    /\ make_null_move(board).board.fullmove_number = board.fullmove_number + 1
    /\ make_null_move(board).board.en_passant_square = -1

C21_FailedMakeLeavesBoard ==
    (last.op = "make_move"
        /\ \/ piece_type_at(last.expect, last.move.from) = NoPiece
           \/ (is_capture(last.move) /\ piece_type_at(last.expect, last.move.to) = NoPiece))
    => (last.threw /\ board = last.expect)

(***************************************************************************)
(* Properties of the search                                                *)
(***************************************************************************)
SearchOver == pc \in {"returned", "reported"}

\* C4: for a root that has a legal move, a depth-limited search that runs to
\* completion (no stop, no node limit, no time budget) returns a best_move
\* that is one of the root's legal moves, the same in from, to, promotion
\* and flags.
C4_BestMoveIsLegal ==
    (SearchOver /\ root.moves # << >> /\ ~stop_flag /\ limits.node_limit = 0 /\ ~limits.timed)
        => \E i \in 1 .. Len(root.moves) : same_move(si.best.best_move, root.moves[i])

\* A search to MaxDepth has ended on a root of several moves, with a best
\* move that is not the first move generated.
C4_Witness ==
    /\ pc = "reported"
    /\ ~stop_flag /\ limits.node_limit = 0 /\ ~limits.timed
    /\ Len(root.moves) > 1
    /\ si.best.depth = MaxDepth
    /\ ~same_move(si.best.best_move, root.moves[1])

\* C5: if the stop flag is set while iteration d is in progress, what
\* iteration d computed is dropped: the result returned is the one recorded
\* at the end of the last iteration recorded, of a depth below d.
C5_StopDiscardsIteration ==
    (SearchOver /\ stop_flag /\ hist.stop_iter > 0)
        => /\ si.best = hist.recorded
           /\ si.best.depth < hist.stop_iter

\* The flag was set during the second iteration, after the first move of the
\* iteration had raised the best score; the result is the first iteration's.
C5_Witness ==
    /\ pc = "reported"
    /\ stop_flag
    /\ hist.stop_iter = 2
    /\ hist.partial
    /\ si.best.depth = 1
    /\ ~is_null_move(si.best.best_move)
    /\ si.score # si.best.score

\* C6: when the node limit or the time budget cuts iteration d short (the
\* stop flag not being set), what iteration d computed is dropped as for a
\* stop: the result returned is the one of the last iteration searched in
\* full, and a root score that rests on the sentinel 0 of an aborted subtree
\* is never taken as the result of an iteration.
C6_LimitDiscardsIteration ==
    (SearchOver /\ ~stop_flag) => si.best = hist.completed

\* C7: a root without a legal move gives the null move as best_move, and
\* the thread prints `bestmove 0000`; without a check (stalemate) the score
\* returned is 0.
C7_NoLegalMove ==
    (SearchOver /\ root.moves = << >>)
        => /\ si.best.best_move.from = 0 /\ si.best.best_move.to = 0
           /\ (~root.in_check => si.best.score = 0)
           /\ (pc = "reported" => out = <<<<"bestmove", <<"0", "0", "0", "0">>>>>>)

\* The stalemate has been searched to MaxDepth and its result printed.
C7_Witness ==
    /\ pc = "reported"
    /\ root.moves = << >>
    /\ ~root.in_check
    /\ si.best.depth = MaxDepth
    /\ Len(out) = 1


\* The window of the search_root call that has returned has failed low, has
\* failed high, or holds the score.
FailedLow == si.score <= si.alpha
FailedHigh == ~FailedLow /\ si.score >= si.beta
Accepted ==
    \/ (si.alpha < si.score /\ si.score < si.beta)
    \/ (FailedLow /\ si.alpha = -kInfinity)
    \/ (FailedHigh /\ si.beta = kInfinity)

MoveTimeGiven == limits.move_time_ms >= 0 /\ ~limits.infinite

\* C30: with a move time given, time_limit_ is the move time, whatever the
\* clock says; and once the time elapsed has reached the move time, the
\* search that stands before a node (the first root move, the next root
\* move) finds should_stop() true.
C30_MoveTimeStopsSearch ==
    MoveTimeGiven
        => /\ limits.time_limit = limits.move_time_ms
           /\ (time_up /\ pc \in {"root", "worker"}) => ShouldStop

\* C31: a search on a root that has a legal move returns a best_move that is
\* not the null move, and the thread does not print `bestmove 0000`, also
\* when the stop flag, the node limit or the time budget ends the search
\* before the iteration of depth 1 is recorded.
C31_BestMoveNeverNull ==
    (SearchOver /\ root.moves # << >>)
        => /\ ~is_null_move(si.best.best_move)
           /\ \A i \in 1 .. Len(out) : out[i] # <<"bestmove", <<"0", "0", "0", "0">>>>
(***************************************************************************)
(* Properties of the UCI loop                                              *)
(***************************************************************************)
\* The handling of the last line read has come to its end.
Handled(words) == uci_pc = "getline" /\ tally.handled \in words

\* C8: at most one search thread is alive; every `go` yields exactly one
\* bestmove line, printed before the handling of the next `go`, `position`,
\* `ucinewgame`, `stop` or `quit` is complete (so that all the `go` read have
\* their bestmove when the process ends); when `stop` has been handled the
\* bestmove is out and no search runs.
C8_OneBestmovePerGo ==
    /\ threads_alive <= 1
    /\ Bestmoves(out) <= tally.gos
    /\ Handled({"go"}) => Bestmoves(out) >= tally.gos - 1
    /\ Handled({"position", "ucinewgame", "stop"})
          => (Bestmoves(out) = tally.gos /\ search_thread # "running" /\ ~searching)
    /\ uci_pc = "exited" => Bestmoves(out) = tally.gos

\* C9: no input error ends the process, and each line with an input error
\* is answered by an `info string` line, after which the loop reads on.
C9_InputErrorsReported ==
    /\ exit_code # 1
    /\ tally.errors > 0 => uci_pc # "unwind"
    /\ uci_pc = "getline" => InfoStrings(out) = tally.errors

(***************************************************************************)
(* Properties of negamax and quiescence                                    *)
(***************************************************************************)
\* The call on top has just taken its static evaluation (negamax line 463,
\* quiescence line 591).
Evaluated == frames # << >> /\ Top.at = "evaluated"

\* C11: at every node where negamax or quiescence takes a static evaluation
\* at ply p, accumulator_stack[p] is build_accumulator of the node's board;
\* and a node reached through a null move is evaluated with the accumulator
\* its parent has at ply p - 1.
C11_EvaluatedOnOwnAccumulator ==
    Evaluated =>
        /\ ctx.accumulator_stack[Top.ply] = build_accumulator(network, board)
        /\ Top.via_null => ctx.accumulator_stack[Top.ply] = ctx.accumulator_stack[Top.ply - 1]

(***************************************************************************)
(* Properties of the transposition table                                   *)
(***************************************************************************)
\* C12: when the slot takes the entry, the probe of the same key at the same
\* ply right after the store hits and hands back the key, the depth, the
\* score, the move and the flag stored.
C12_ProbeAfterStore ==
    (last.op = "probe" /\ last.admitted) =>
        /\ last.hit
        /\ last.entry.key = last.key
        /\ last.entry.depth = last.depth
        /\ last.entry.score = last.score
        /\ last.entry.move = last.move
        /\ last.entry.flag = last.flag

\* A mate score stored from a ply above 0 over an entry of another key has
\* been probed.
C12_Witness ==
    /\ last.op = "probe" /\ last.admitted
    /\ last.score < -kMateScoreThreshold /\ last.ply = MaxTTPly
    /\ last.stored # last.score
    /\ last.entry.score = last.score

\* C13: from_tt_score(to_tt_score(s, ply), ply) = s for the scores from
\* -32000 to 32000 and the plies from 0 up.
C13_MateScoreRoundTrip ==
    last.op \in {"store", "probe"} =>
        /\ last.stored = to_tt_score(last.score, last.ply)
        /\ from_tt_score(last.stored, last.ply) = last.score

\* The score next above the mate threshold has gone through to_tt_score at a
\* ply above 0.
C13_Witness ==
    /\ last.op = "store"
    /\ last.score = kMateScoreThreshold + 1 /\ last.ply > 0
    /\ last.stored = last.score + last.ply

\* C14: on one thread, two searches of the same position under the same depth
\* or node limit, the second on a cleared table (the same Search after
\* clear(), or a new Search), return the same best_move and the same score.
C14_SecondSearchReturnsTheSame ==
    Len(results) = 2 =>
        /\ results[2].best_move = results[1].best_move
        /\ results[2].score = results[1].score

\* Both searches went to depth 4 and returned a move; the second one ran
\* after clear(), on accumulators the first one left behind.
C14_Witness ==
    /\ Len(results) = 2
    /\ results[1].depth = MaxRunDepth
    /\ results[1].best_move # NullMove
    /\ results[2] = results[1]
    /\ ctx.accumulator_stack[MaxRunDepth + 1] # EmptyAccumulator

\* negamax stands at its first line, with depth >= 1.
EntersNegamax ==
    /\ frames # << >>
    /\ Top.fn = "negamax" /\ Top.at = "entry" /\ Top.depth >= 1

\* The call on top returns 0 at once: its frame is gone, and neither the
\* table, nor the context (static evaluation, killers, history), nor the
\* board has changed, and no move list was made.
ReturnsDrawAtOnce ==
    /\ ret' = 0
    /\ frames' = SubSeq(frames, 1, Len(frames) - 1)
    /\ table' = table /\ ctx' = ctx /\ board' = board

\* C15: negamax entered with depth >= 1 at a position whose key is at least
\* three times in repetition_stack returns 0, before the probe of the table,
\* the static evaluation and the generation of the moves.
C15_ThreefoldRepetitionDraw ==
    [][(EntersNegamax /\ CountKey(ctx.repetition_stack, board.zobrist_key) >= 3)
          => ReturnsDrawAtOnce]_vars

\* negamax has returned 0 at the last board of RepetitionLine, the first
\* node counted, past an entry of the table that would have given 77.
C15_Witness ==
    /\ frames = << >> /\ ret = 0 /\ nodes_total = 1
    /\ board = RepetitionBoards[Len(RepetitionBoards)]
    /\ CountKey(ctx.repetition_stack, board.zobrist_key) = 3
    /\ board.halfmove_clock < 100
    /\ probe_tt(table, board.zobrist_key) /\ table.score = 77

\* C16: negamax entered with depth >= 1 on a board whose halfmove_clock is
\* 100 or more returns 0, whatever the window, the table and the pieces.
C16_FiftyMoveDraw ==
    [][(EntersNegamax /\ board.halfmove_clock >= 100) => ReturnsDrawAtOnce]_vars

\* negamax has returned 0 on a board three pawns up with halfmove_clock 100,
\* on a line without a repetition, past an entry of the table that would
\* have given 77.
C16_Witness ==
    /\ frames = << >> /\ ret = 0 /\ nodes_total = 1
    /\ board.halfmove_clock = 100
    /\ Len(ctx.repetition_stack) = 1
    /\ probe_tt(table, board.zobrist_key) /\ table.score = 77

\* C19: whatever the board and the contents of the accumulator, of the right
\* size or not, evaluate returns a value of magnitude at most 30000, below
\* the mate threshold 31488.
C19_EvaluationBounded ==
    last.op = "evaluate" =>
        /\ -kMaxEvaluationMagnitude <= ret /\ ret <= kMaxEvaluationMagnitude
        /\ kMaxEvaluationMagnitude < kMateScoreThreshold

\* evaluate has returned -30000 for Black to move on an accumulator whose
\* white vector is one entry too long and whose black vector is empty: the
\* sum was beyond the bound.
C19_Witness ==
    /\ last.op = "evaluate"
    /\ ret = -kMaxEvaluationMagnitude
    /\ board.side_to_move = Black
    /\ DOMAIN acc.white = 0 .. HiddenSize
    /\ acc.black = << >>

\* C18: when load_from_file of the configured path fails (the file does not
\* open, the magic, the version or the feature count is wrong, the data end
\* early), ensure_network_loaded returns without the exception, has written
\* one line that begins with `info string` on std::cerr, has installed the
\* default network and has set network_loaded_.
C18_LoadFailureFallsBack ==
    (last.op = "ensure_network_loaded" /\ last.tried /\ last.threw) =>
        /\ ~last.propagated
        /\ Len(err) = last.lines + 1
        /\ err[Len(err)][1] = "info string"
        /\ network = "default"
        /\ evaluator.network_loaded

\* A version 2 file that ends within its output weights, after
\* ensure_storage has resized the Network: the fallback has run.
C18_Witness ==
    /\ last.op = "ensure_network_loaded" /\ last.threw
    /\ file.opens /\ Len(file.words) = 6 /\ file.words[2] = kVersionV2
    /\ file.words[4] = HiddenSize
    /\ err = << <<"info string", "NNUE fallback: ", "Failed to read NNUE output weights">> >>
    /\ network = "default"
    /\ evaluator.network_loaded

\* C22: once should_stop() has made a call return the sentinel 0, the caller
\* that takes this 0 as the score of its move writes no entry of the table:
\* the result of the aborted subtree is discarded.
C22_AbortedScoresNotStored ==
    [][(last.op = "abort" /\ frames # << >>) => table' = table]_vars

\* The entries of the vectors of the context that the call at the top has
\* indexed.
IndicesUsed == IF frames = << >> THEN {} ELSE frames[1].used

\* C32: every entry of stack, killer_moves and accumulator_stack that a
\* search indexes, quiescence and the calls made in check included, lies
\* below max(max_depth + 5, 64) for the max_depth clamped to 1 .. 128.
C32_IndicesBelowCapacity ==
    pc = "root"
        => \A u \in IndicesUsed : u[2] < required_capacity(clamped_depth(limits.max_depth))
(***************************************************************************)
(* Properties of the threads of search_root                                *)
(***************************************************************************)
\* The calling thread has left the join loop of search_root (line 383).
PoolJoined == pc \in {"root_end", "after_root"}

\* The root moves the workers take: the indices from 1 on, the second move
\* of the list and the ones after it.
WorkerIndices == {i \in DOMAIN pool.handed : i >= 2}

\* C23: the first root move is searched by the calling thread alone, before
\* any worker is started; each later index is handed out by the counter to
\* one worker at most and searched once at most; without a cutoff and
\* without a stop each of them is handed out and searched; the calling
\* thread stores the root's entry and returns only when every worker it
\* started has left worker_fn and has been joined.
C23_RootMovesSplit ==
    /\ \A e \in pool.searched : e.idx = 1 => (e.thread = 0 /\ e.spawned = {})
    /\ pool.handed[1] = 0
    /\ \A i \in WorkerIndices :
         /\ pool.handed[i] <= 1
         /\ Cardinality({e \in pool.searched : e.idx = i}) <= pool.handed[i]
    /\ (PoolJoined /\ sr.moves # << >> /\ ~sr.cutoff /\ ~ShouldStop)
         => \A i \in WorkerIndices :
              pool.handed[i] = 1 /\ \E e \in pool.searched : e.idx = i
    /\ PoolJoined
         => (pool.joined = pool.spawned /\ \A t \in pool.spawned : workers[t].pc = "done")
    /\ probe_tt(table, board.zobrist_key) => pc = "after_root"

\* Three threads, the second and the third root move searched by two
\* different threads, the root's entry stored.
C23_Witness ==
    /\ pc = "after_root"
    /\ pool.thread_count = 3
    /\ pool.joined = {1, 2}
    /\ \E e, f \in pool.searched : e.idx = 2 /\ f.idx = 3 /\ e.thread # f.thread
    /\ probe_tt(table, board.zobrist_key)

\* The largest of a set of values that is not empty.
Largest(values) == CHOOSE v \in values : \A u \in values : u <= v

\* The values search_root_worker has returned in this call of search_root.
ReturnedValues == {e.value : e \in pool.searched}

\* What holds of the merge in every state of a search_root call.
MergeInvariant ==
    /\ \A t \in DOMAIN workers :
         workers[t].pc \in {"compare", "assign", "store"} => pool.best_mutex = t
    /\ (\E m \in pool.merged : m.value >= si.beta) => sr.cutoff
    /\ (PoolJoined /\ sr.moves # << >> /\ ~ShouldStop)
         => /\ pool.merged = {[thread |-> e.thread, idx |-> e.idx, value |-> e.value] :
                                e \in {f \in pool.searched : f.idx >= 2}}
            /\ sr.best_score = Largest(ReturnedValues)
            /\ \E e \in pool.searched :
                 e.value = sr.best_score /\ si.iteration_best = sr.moves[e.idx]

\* C24: a thread is in lines 357-368 only while it holds best_mutex; in a
\* search that is not stopped every value a worker got is merged, so that
\* after the join best_score is the largest value returned and best_move a
\* move that returned it; cutoff is set once a value of beta or more is
\* merged; shared_alpha never goes down.
C24_MergeUnderMutex ==
    /\ []MergeInvariant
    /\ [][pc # "root" => sr'.shared_alpha >= sr.shared_alpha]_vars

\* Three threads, no stop, the two workers have merged a value each and the
\* best move is one a worker searched.
C24_Witness ==
    /\ PoolJoined
    /\ ~ShouldStop
    /\ pool.thread_count = 3
    /\ \E m, n \in pool.merged : m.thread = 1 /\ n.thread = 2
    /\ si.iteration_best # sr.moves[1]
    /\ sr.best_score = 25
    /\ sr.shared_alpha = 25

\* A thread started by search_root has not been joined yet, or the calling
\* thread is in worker_fn(0).
WorkersRun == pool.spawned # pool.joined \/ pc = "worker_fn"

\* The threads that have run search_root_worker in the step.
Searchers == {e.thread : e \in pool'.searched \ pool.searched}

\* C26: the moves of a worker are made on the clone of the thread that runs
\* it, never on the root Board; contexts_[i] is read and written by the
\* thread of worker_fn(i) alone; while workers run neither the root Board
\* nor the root move list is written.
C26_ThreadsOwnTheirState ==
    /\ [](\A c \in DOMAIN pool.users : pool.users[c] \subseteq {c})
    /\ [][/\ \A t \in DOMAIN workers :
               workers'[t].local_board # workers[t].local_board
                   => (t \in Searchers /\ workers'[t].local_board # board)
          /\ Searchers # {} => board' = board
          /\ WorkersRun => (board' = board /\ sr'.moves = sr.moves)]_vars

\* Three threads have searched a root move each, on three contexts and three
\* clones.
C26_Witness ==
    /\ pool.thread_count = 3
    /\ \A c \in 0 .. 2 : pool.users[c] = {c}
    /\ \A t, u \in 0 .. 2 : t # u => workers[t].local_board # workers[u].local_board
    /\ \A t \in 0 .. 2 : workers[t].local_board.side_to_move # board.side_to_move

\* C25: a probe_tt call that returns true hands back the key asked for and
\* the depth, score, move, flag and age one single store_tt call has
\* written (the score brought to the ply of the probe).
C25_NoTornEntry ==
    \A t \in DOMAIN workers :
        (workers[t].pc = "probed" /\ workers[t].hit)
            => /\ workers[t].entry.key = workers[t].call.key
               /\ \E call \in StoreCalls :
                    workers[t].entry = ProbedEntry(WrittenEntry(call, generation),
                                                   workers[t].call.ply)

\* A probe has returned the entry of depth 2, which has overwritten the one
\* of depth 1 or an empty slot, and another thread is in the middle of the
\* writes of its store.
C25_Witness ==
    \E t, u \in DOMAIN workers :
        /\ workers[t].pc = "probed"
        /\ workers[t].hit
        /\ workers[t].entry.depth = 2
        /\ workers[u].pc = "store_write"
        /\ workers[u].next = 3

\* C27: while the search thread of a `go` runs, a `setoption` line changes
\* nothing the search threads use: thread_count_ and contexts_ stay as they
\* are, and so do the network of the evaluator and its path.
C27_SetoptionLeavesSearchAlone ==
    [][(search_thread = "running" /\ tally'.handled = "setoption" /\ tally'.lines # tally.lines)
          => (pool' = pool /\ ctx' = ctx /\ evaluator' = evaluator /\ network' = network)]_vars

\* C28: store_tt leaves every slot but the one at key mod table_.size() as
\* it was; that slot takes the new entry when it was Empty, or the new
\* depth is at least the depth it held, or its generation is not the
\* current one, and is left as it was in every other case.
C28_ReplacementPolicy ==
    last.op = "store" =>
        LET i == KeyValue(last.key) % TableSize
            old == last.before[i]
        IN  /\ \A j \in DOMAIN table : j # i => table[j] = last.before[j]
            /\ IF old.flag = "Empty" \/ last.depth >= old.depth \/ old.age # last.generation
               THEN table[i] = [key |-> last.key, depth |-> last.depth,
                                score |-> to_tt_score(last.score, last.ply),
                                move |-> last.move, flag |-> last.flag,
                                age |-> last.generation]
               ELSE table[i] = old

\* A store of depth 1 has found in its slot an entry of depth 2, of another
\* key and of the current generation, and has left it; the other slot holds
\* an entry too.
C28_Witness ==
    /\ last.op = "store"
    /\ last.depth = 1
    /\ \E i \in {KeyValue(last.key) % TableSize} :
         /\ last.before[i].flag # "Empty"
         /\ last.before[i].age = last.generation
         /\ last.before[i].key # last.key
         /\ \A j \in DOMAIN table : j # i => table[j].flag # "Empty"
    /\ table = last.before
(***************************************************************************)
(* Properties of the move generator and of the board's special moves       *)
(***************************************************************************)
\* After move m on board b, the king of the side that moved is not attacked
\* by the opponent.
MoverKingSafe(b, m) ==
    LET after == make_move(b, m).board
        mover == b.side_to_move
    IN  \A k \in after.pieces[mover][King] : ~is_square_attacked(after, k, opposite_color(mover))

\* C33: generate_legal_moves returns, in their order, exactly the
\* pseudo-legal moves after which the mover's king is not attacked, and
\* the board is then what it was when the call began.
C33_LegalMovesFiltered ==
    last.op = "generated"
        => /\ ret = SelectSeq(generate_pseudo_legal_moves(last.expect),
                              LAMBDA m : MoverKingSafe(last.expect, m))
           /\ board = last.expect

\* A call has returned that kept some pseudo-legal moves and dropped others,
\* after a turn of the loop that made and undid an en-passant capture.
C33_Witness ==
    /\ last.op = "generated"
    /\ ret # << >>
    /\ Len(ret) < Len(generate_pseudo_legal_moves(board))
    /\ \E i \in 1 .. Len(generate_pseudo_legal_moves(board)) :
         is_en_passant(generate_pseudo_legal_moves(board)[i])

\* The first square of the home rank of a colour, and the castling right of
\* a colour on a wing.
HomeRank(color) == IF color = White THEN 0 ELSE 56
CastleRight(color, wing) ==
    IF color = White
    THEN (IF wing = KingCastle THEN kWhiteKingCastle ELSE kWhiteQueenCastle)
    ELSE (IF wing = KingCastle THEN kBlackKingCastle ELSE kBlackQueenCastle)

\* The side to move of b may castle on the wing: it is not in check, holds
\* the right, the files between king and rook (f, g; b, c, d) are empty on
\* its home rank, and the files the king passes and lands on (f, g; d, c)
\* are not attacked by the opponent.
MayCastle(b, wing) ==
    LET us == b.side_to_move
        them == opposite_color(us)
        between == IF wing = KingCastle THEN {5, 6} ELSE {1, 2, 3}
        kingway == IF wing = KingCastle THEN {5, 6} ELSE {3, 2}
    IN  /\ \A k \in b.pieces[us][King] : ~is_square_attacked(b, k, them)
        /\ CastleRight(us, wing) \in b.castling_rights
        /\ \A f \in between : b.mailbox[HomeRank(us) + f] = kEmptySquare
        /\ \A f \in kingway : ~is_square_attacked(b, HomeRank(us) + f, them)

\* The moves of a sequence that castle on the wing.
CastlesIn(moves, wing) == {i \in 1 .. Len(moves) : wing \in moves[i].flags}

\* C34: a KingCastle or QueenCastle move is among the pseudo-legal moves,
\* and among the legal moves returned, if and only if the side to move is
\* not in check, holds the right, the squares between king and rook are
\* empty and the squares the king passes and lands on are not attacked;
\* it then is one move, from the king's square to the g or c file.
C34_CastlingGenerated ==
    \A wing \in {KingCastle, QueenCastle} :
        /\ frames # << >>
             => /\ (CastlesIn(frames[1].pseudo, wing) # {}) = MayCastle(board, wing)
                /\ Cardinality(CastlesIn(frames[1].pseudo, wing)) <= 1
                /\ \A i \in CastlesIn(frames[1].pseudo, wing) :
                     /\ frames[1].pseudo[i].from \in board.pieces[board.side_to_move][King]
                     /\ frames[1].pseudo[i].to
                            = HomeRank(board.side_to_move) + (IF wing = KingCastle THEN 6 ELSE 2)
        /\ last.op = "generated" => (CastlesIn(ret, wing) # {}) = MayCastle(board, wing)

\* Black holds both rights, f8 is attacked: the call has returned the
\* castling on the queen side and none on the king side.
C34_Witness ==
    /\ last.op = "generated"
    /\ board.side_to_move = Black
    /\ {kBlackKingCastle, kBlackQueenCastle} \subseteq board.castling_rights
    /\ CastlesIn(ret, QueenCastle) # {}
    /\ CastlesIn(ret, KingCastle) = {}
    /\ is_square_attacked(board, 61, White)

\* The moves of the side to move that take a king.
KingCaptures(b) ==
    {move \in Range(generate_legal_moves(b)) :
        move.to \in b.pieces[opposite_color(b.side_to_move)][King]}

\* C35: after every make_move and undo_move of a sequence of legal moves
\* each colour has exactly one king, and no legal move generated for the
\* board takes a king.
C35_OneKingEach ==
    /\ \A c \in Colors : Cardinality(board.pieces[c][King]) = 1
    /\ KingCaptures(board) = {}

\* A move has been made that gives check: the king of the side to move is
\* attacked, and the moves generated for it are its evasions.
C35_Witness ==
    /\ last.op = "make"
    /\ in_check(board, board.side_to_move)
    /\ generate_legal_moves(board) # << >>
    /\ Cardinality(board.pieces[board.side_to_move][King]) = 1

\* The squares a pawn of the mover has passed over between the board
\* before a move and the board after it: the pawn stood two ranks back on
\* its start rank and stands two ranks ahead now.
PassedOver(before, after) ==
    LET us == before.side_to_move
        ahead == IF us = White THEN 8 ELSE -8
        start == IF us = White THEN 8 .. 15 ELSE 48 .. 55
    IN  {s + ahead : s \in {x \in start \cap before.pieces[us][Pawn] :
                                /\ x \notin after.pieces[us][Pawn]
                                /\ x + 2 * ahead \in after.pieces[us][Pawn]
                                /\ x + 2 * ahead \notin before.pieces[us][Pawn]}}

\* C36: after make_move the en-passant square is set exactly when the move
\* was a double pawn push, to the square the pawn passed over; after any
\* other move and after make_null_move it is None.
C36_EnPassantSquare ==
    /\ last.op = "make"
         => /\ (DoublePush \in last.flags) = (PassedOver(last.expect, board) # {})
            /\ IF PassedOver(last.expect, board) # {}
               THEN PassedOver(last.expect, board) = {board.en_passant_square}
               ELSE board.en_passant_square = -1
    /\ last.op = "make_null" => board.en_passant_square = -1

\* Black has pushed a pawn two squares on a board that had an en-passant
\* square of White's double push: the square is now on the sixth rank.
C36_Witness ==
    /\ last.op = "make"
    /\ DoublePush \in last.flags
    /\ last.expect.en_passant_square \in 16 .. 23
    /\ board.en_passant_square \in 40 .. 47

\* The castling rights, each with its colour and the files of the rook's
\* home square and of the rook's square after the castling.
RightsTable ==
    { <<kWhiteKingCastle, White, KingCastle, 7>>, <<kWhiteQueenCastle, White, QueenCastle, 0>>,
      <<kBlackKingCastle, Black, KingCastle, 7>>, <<kBlackQueenCastle, Black, QueenCastle, 0>> }

\* C37: a castling right that is set finds the king of its colour on the e
\* file and the rook on the a or h file of the home rank; so every castle
\* move generated starts from the king's home square and has its rook on
\* the square make_move takes it from.
C37_RightsImplyHomeSquares ==
    /\ \A r \in RightsTable :
         r[1] \in board.castling_rights
            => /\ board.pieces[r[2]][King] = {HomeRank(r[2]) + 4}
               /\ HomeRank(r[2]) + r[4] \in board.pieces[r[2]][Rook]
    /\ \A move \in Range(generate_legal_moves(board)) :
       \A r \in RightsTable :
         (r[2] = board.side_to_move /\ r[3] \in move.flags)
            => /\ move.from = HomeRank(r[2]) + 4
               /\ HomeRank(r[2]) + r[4] \in board.pieces[r[2]][Rook]

\* White's rook has taken the rook on a8: Black has lost the right of the
\* queen side and keeps the one of the king side, White has lost the right
\* of the rook that moved.
C37_Witness ==
    /\ last.op = "make"
    /\ Capture \in last.flags
    /\ {kWhiteQueenCastle, kBlackQueenCastle} \subseteq last.expect.castling_rights
    /\ board.castling_rights = {kWhiteKingCastle, kBlackKingCastle}
    /\ 56 \in board.pieces[White][Rook]
(***************************************************************************)
(* Properties of the time manager and of the lines the front end prints    *)
(***************************************************************************)
\* The call of allocate_time_ms that has returned gave
\* clamp(min(remaining * base * boost + increment * bonus, remaining / moves),
\* min_time_ms, max_time_ms), cut to an integer, for a clock above 0; the
\* boost is 1.2 before move 20, 0.8 after move 60 and 1 between.  The
\* fractions are compared by their cross products.
AllocationShared(moves) ==
    LET c == time_config
        boost == IF last.move_number < 20 THEN <<6, 5>>
                 ELSE IF last.move_number > 60 THEN <<4, 5>> ELSE <<1, 1>>
        num == last.remaining_ms * c.base_allocation.num * boost[1] * c.increment_bonus.den
               + last.increment_ms * c.increment_bonus.num * c.base_allocation.den * boost[2]
        den == c.base_allocation.den * boost[2] * c.increment_bonus.den
        capped == IF num * moves <= last.remaining_ms * den
                  THEN <<num, den>> ELSE <<last.remaining_ms, moves>>
    IN  /\ ret = IF capped[1] < c.min_time_ms * capped[2] THEN c.min_time_ms
                 ELSE IF capped[1] > c.max_time_ms * capped[2] THEN c.max_time_ms
                 ELSE capped[1] \div capped[2]
        /\ capped[1] * moves <= last.remaining_ms * capped[2]

AllocationReturned == last.op = "allocate_time_ms" /\ last.remaining_ms > 0

\* C38: a call of allocate_time_ms with a clock above 0 shares the clock
\* among max(moves_to_go, 30) moves: it returns the allocation capped to
\* remaining / max(moves_to_go, 30) and clamped, so the allocation before
\* the clamp is at most remaining / 30.
C38_AllocationFloorOfThirty ==
    AllocationReturned => AllocationShared(Max(last.moves_to_go, 30))

\* The places of the word `score` in the line printed last.
ScorePlaces ==
    IF out = << >> THEN {}
    ELSE {i \in 1 .. Len(out[Len(out)]) - 2 : out[Len(out)][i] = Word("score")}

\* The line printed last reports the score of the result: `score mate M`
\* with M from RoundedMate when the score is a mate score, `score cp` with
\* the score otherwise.
ScoreReported(RoundedMate(_), SignAgrees(_, _)) ==
    LET printed == out[Len(out)]
        score == last.result.score
    IN  /\ Cardinality(ScorePlaces) = 1
        /\ \A i \in ScorePlaces :
             IF Abs(score) >= 31488
             THEN /\ printed[i + 1] = Word("mate")
                  /\ \E m \in -512 .. 512 :
                       /\ printed[i + 2] = Number(m)
                       /\ Abs(m) = RoundedMate(32000 - Abs(score) + 1)
                       /\ SignAgrees(m, score)
             ELSE /\ printed[i + 1] = Word("cp")
                  /\ printed[i + 2] = Number(score)

\* The half of n rounded up, and rounded down.
HalfUp(n) == CHOOSE h \in 0 .. n : 2 * h \in {n, n + 1}
HalfDown(n) == CHOOSE h \in 0 .. n : 2 * h \in {n - 1, n}

\* The sign of m is the sign of score; and the same for an m that is not 0.
SameSign(m, score) == (m > 0) = (score > 0) /\ (m < 0) = (score < 0)
SameSignUnlessZero(m, score) == m # 0 => SameSign(m, score)

\* C39 as stated: for |score| >= 31488 the line reports `score mate M`
\* with |M| the half of 32000 - |score| + 1 rounded up and the sign of the
\* score, for every other score `score cp` and the score.
C39_MateRoundedUp ==
    last.op = "send_info" => ScoreReported(HalfUp, SameSign)

\* C39, amended: |M| is the half of 32000 - |score| + 1 rounded down, which
\* is the number of moves to the mate for the scores 32000 - ply of both
\* sides, and M has the sign of the score unless it is 0.
C39_MateReported ==
    last.op = "send_info" => ScoreReported(HalfDown, SameSignUnlessZero)

\* The side to move is mated by the reply to its move (score -32000 + 2):
\* the line says `score mate -1`, where the half rounded up gives 2.
C39_Witness ==
    /\ last.op = "send_info"
    /\ last.result.score = -31998
    /\ \E i \in ScorePlaces : /\ out[Len(out)][i + 1] = Word("mate")
                             /\ out[Len(out)][i + 2] = Number(-1)
    /\ HalfUp(32000 - 31998 + 1) = 2

\* C40: whatever `setoption` lines have been handled, the configuration of
\* the time manager has 1 <= min_time_ms <= max_time_ms, and every
\* allocation made with it lies between the two.
C40_ThinkTimesOrdered ==
    /\ 1 <= time_config.min_time_ms
    /\ time_config.min_time_ms <= time_config.max_time_ms
    /\ last.op = "allocate_time_ms"
         => (time_config.min_time_ms <= ret /\ ret <= time_config.max_time_ms)
=============================================================================
